---- MODULE Spec2Model ----
(***************************************************************************)
(* DataTalk: the offline rule-based natural-language-to-SQL translator     *)
(* (src/local_nl_sql.py, class LocalNLtoSQL).                              *)
(*                                                                         *)
(* Python strings are TLA+ strings, handled character by character with    *)
(* SubSeq/Len/\o.  An Optional[str] is a sequence of at most one string:   *)
(* <<>> is None, <<"x">> is the string "x".                                *)
(***************************************************************************)
EXTENDS Integers, Sequences, FiniteSets, TLC

VARIABLES
    tables,       \* tables[i]: self.tables of instance i, in dict order
    languages,    \* languages[i]: self.languages of instance i
    patterns,     \* patterns[i]: self.patterns of instance i
    now,          \* the wall clock of the process
    self,         \* self[t]: the instance caller t calls into
    question,     \* question[t]: the argument caller t passed
    norm,         \* norm[t]: parse_question's local `question` after line 123
    idx,          \* idx[t]: position of the `for` loop of lines 126-133
    pc,           \* pc[t]: where caller t is
    result,       \* result[t]: what the last parse_question of t returned or raised
    returned_at,  \* returned_at[t]: the clock when that call returned
    suggestions,  \* suggestions[t]: what the last get_suggestions of t returned
    response,     \* response[t]: what the model service gave the call of t
    executed,     \* the statements the dashboard passed to the database
    query_history \* st.session_state.query_history of the dashboard

vars == <<tables, languages, patterns, now, self, question, norm, idx, pc,
          result, returned_at, suggestions, response, executed,
          query_history>>

(***************************************************************************)
(* Characters and strings.                                                 *)
(***************************************************************************)
Ch(s, i) == SubSeq(s, i, i)

UpperAlphabet == "ABCDEFGHIJKLMNOPQRSTUVWXYZ"
LowerAlphabet == "abcdefghijklmnopqrstuvwxyz"
DigitAlphabet == "0123456789"

CharsOf(s) == {Ch(s, i) : i \in 1..Len(s)}

UpperChars == CharsOf(UpperAlphabet)
LowerChars == CharsOf(LowerAlphabet)
Digits == CharsOf(DigitAlphabet)
WordChars == UpperChars \cup LowerChars \cup Digits \cup {"_"}
Whitespace == {" ", "\t", "\n", "\r", "\f"}

Min(S) == CHOOSE x \in S : \A y \in S : x <= y

IndexIn(alphabet, c) == CHOOSE i \in 1..Len(alphabet) : Ch(alphabet, i) = c

\* str.lower() of one character
LowerCh(c) ==
    IF c \in UpperChars THEN Ch(LowerAlphabet, IndexIn(UpperAlphabet, c)) ELSE c

\* str.upper() of one character
UpperCh(c) ==
    IF c \in LowerChars THEN Ch(UpperAlphabet, IndexIn(LowerAlphabet, c)) ELSE c

\* str.lower(): halves the string, so that long strings do not nest deeply
RECURSIVE Lower(_)
Lower(s) ==
    IF Len(s) = 0 THEN ""
    ELSE IF Len(s) = 1 THEN LowerCh(s)
    ELSE LET mid == Len(s) \div 2
         IN  Lower(SubSeq(s, 1, mid)) \o Lower(SubSeq(s, mid + 1, Len(s)))

RECURSIVE Upper(_)
Upper(s) ==
    IF Len(s) = 0 THEN ""
    ELSE IF Len(s) = 1 THEN UpperCh(s)
    ELSE LET mid == Len(s) \div 2
         IN  Upper(SubSeq(s, 1, mid)) \o Upper(SubSeq(s, mid + 1, Len(s)))

\* str.strip(): without leading and trailing whitespace
Strip(s) ==
    LET ink  == {i \in 1..Len(s) : Ch(s, i) \notin Whitespace}
        last == CHOOSE i \in ink : \A j \in (i + 1)..Len(s) : Ch(s, j) \in Whitespace
    IN  IF ink = {} THEN "" ELSE SubSeq(s, Min(ink), last)

\* `sub in s`
Contains(s, sub) ==
    \E i \in 1..(Len(s) - Len(sub) + 1) : SubSeq(s, i, i + Len(sub) - 1) = sub

\* s.startswith(prefix)
StartsWith(s, prefix) ==
    Len(prefix) <= Len(s) /\ SubSeq(s, 1, Len(prefix)) = prefix

\* s.endswith(suffix)
EndsWith(s, suffix) ==
    /\ Len(suffix) <= Len(s)
    /\ SubSeq(s, Len(s) - Len(suffix) + 1, Len(s)) = suffix

\* s.replace(old, new) for a one-character `old`
RECURSIVE Replace(_, _, _)
Replace(s, old, new) ==
    IF Len(s) = 0 THEN ""
    ELSE IF Len(s) = 1 THEN (IF s = old THEN new ELSE s)
    ELSE LET mid == Len(s) \div 2
         IN  Replace(SubSeq(s, 1, mid), old, new)
                 \o Replace(SubSeq(s, mid + 1, Len(s)), old, new)

(***************************************************************************)
(* Regular expressions: the part of Python's `re` the patterns use.        *)
(* A pattern is a sequence of nodes.  Matching is backtracking in Python's *)
(* priority order: MatchSeq returns every way to match, best first, each   *)
(* as [pos |-> the position after the match, caps |-> the groups so far].  *)
(* The question is lower-cased before it is searched (line 123), so        *)
(* re.IGNORECASE changes nothing for these lower-case patterns.            *)
(***************************************************************************)
Lit(s)      == [t |-> "lit", s |-> s]             \* literal text
Cls(c, min) == [t |-> "cls", c |-> c, min |-> min] \* \s \d \w, greedy, min or more
Opt(r)      == [t |-> "opt", r |-> r]             \* (?:r)?
Alt(rs)     == [t |-> "alt", rs |-> rs]           \* (?:r1|r2|...)
Cap(r)      == [t |-> "cap", r |-> r]             \* (r), a numbered group

InClass(c, ch) ==
    CASE c = "s" -> ch \in Whitespace
      [] c = "d" -> ch \in Digits
      [] c = "w" -> ch \in WordChars

\* the first position from pos on whose character is outside class c
RunEnd(c, s, pos) ==
    CHOOSE k \in pos..(Len(s) + 1) :
        /\ k = Len(s) + 1 \/ ~InClass(c, Ch(s, k))
        /\ \A j \in pos..(k - 1) : InClass(c, Ch(s, j))

RECURSIVE MatchSeq(_, _, _, _, _), MatchNode(_, _, _, _), MatchAlt(_, _, _, _, _),
          Continue(_, _, _, _, _, _)

\* nodes i.. of r against s from pos
MatchSeq(r, i, s, pos, caps) ==
    IF i > Len(r) THEN <<[pos |-> pos, caps |-> caps]>>
    ELSE LET cands == MatchNode(r[i], s, pos, caps)
         IN  Continue(cands, 1, Len(cands), r, i + 1, s)

\* the matches of nodes i.. of r after each of cands[lo..hi], in order
Continue(cands, lo, hi, r, i, s) ==
    IF lo > hi THEN <<>>
    ELSE IF lo = hi THEN MatchSeq(r, i, s, cands[lo].pos, cands[lo].caps)
    ELSE LET mid == (lo + hi) \div 2
         IN  Continue(cands, lo, mid, r, i, s) \o Continue(cands, mid + 1, hi, r, i, s)

MatchAlt(rs, k, s, pos, caps) ==
    IF k > Len(rs) THEN <<>>
    ELSE MatchSeq(rs[k], 1, s, pos, caps) \o MatchAlt(rs, k + 1, s, pos, caps)

MatchNode(node, s, pos, caps) ==
    CASE node.t = "lit" ->
            IF /\ pos + Len(node.s) - 1 <= Len(s)
               /\ SubSeq(s, pos, pos + Len(node.s) - 1) = node.s
            THEN <<[pos |-> pos + Len(node.s), caps |-> caps]>>
            ELSE <<>>
      [] node.t = "cls" ->
            LET e == RunEnd(node.c, s, pos)
                k == (e - pos) - node.min + 1
            IN  IF k < 1 THEN <<>>
                ELSE [j \in 1..k |-> [pos |-> e - j + 1, caps |-> caps]]
      [] node.t = "opt" ->
            MatchSeq(node.r, 1, s, pos, caps) \o <<[pos |-> pos, caps |-> caps]>>
      [] node.t = "alt" ->
            MatchAlt(node.rs, 1, s, pos, caps)
      [] node.t = "cap" ->
            LET inner == MatchSeq(node.r, 1, s, pos, caps)
            IN  [j \in 1..Len(inner) |->
                    [pos  |-> inner[j].pos,
                     caps |-> Append(inner[j].caps, SubSeq(s, pos, inner[j].pos - 1))]]

NoMatch == [found |-> FALSE, groups |-> <<>>]

\* re.search(r, s): the best match at the leftmost position that has one
Search(r, s) ==
    LET hits == {p \in 1..(Len(s) + 1) : MatchSeq(r, 1, s, p, <<>>) # <<>>}
    IN  IF hits = {} THEN NoMatch
        ELSE [found |-> TRUE, groups |-> Head(MatchSeq(r, 1, s, Min(hits), <<>>)).caps]

(***************************************************************************)
(* Decimal arithmetic on digit strings: int(value) * multiplier and the    *)
(* conversion back to text, for numbers of any length.                     *)
(***************************************************************************)
DigitVal(c) == IndexIn(DigitAlphabet, c) - 1
DigitChr(d) == Ch(DigitAlphabet, d + 1)

\* the digits of s times m plus carry: [digits, carry], digits as long as s
RECURSIVE MulDigits(_, _, _)
MulDigits(s, m, carry) ==
    IF Len(s) = 0 THEN [digits |-> "", carry |-> carry]
    ELSE IF Len(s) = 1
    THEN LET v == DigitVal(s) * m + carry
         IN  [digits |-> DigitChr(v % 10), carry |-> v \div 10]
    ELSE LET mid == Len(s) \div 2
             lo  == MulDigits(SubSeq(s, mid + 1, Len(s)), m, carry)
             hi  == MulDigits(SubSeq(s, 1, mid), m, lo.carry)
         IN  \* the low half first: its carry goes into the high half
             IF lo.carry >= 0
             THEN [digits |-> hi.digits \o lo.digits, carry |-> hi.carry]
             ELSE [digits |-> "", carry |-> 0]

\* str(n) for a small natural number n
RECURSIVE NatToStr(_)
NatToStr(n) == IF n < 10 THEN DigitChr(n) ELSE NatToStr(n \div 10) \o DigitChr(n % 10)

\* a digit string without its leading zeros ("0" for zero)
Canonical(s) ==
    LET nz == {i \in 1..Len(s) : Ch(s, i) # "0"}
    IN  IF nz = {} THEN "0" ELSE SubSeq(s, Min(nz), Len(s))

\* str(int(value) * m)
DecMul(value, m) ==
    LET r == MulDigits(value, m, 0)
    IN  Canonical((IF r.carry > 0 THEN NatToStr(r.carry) ELSE "") \o r.digits)

\* CPython refuses to convert between int and str beyond this many digits
\* (ValueError: Exceeds the limit for integer string conversion)
IntMaxStrDigits == 4300

(***************************************************************************)
(* LocalNLtoSQL.__init__                                                   *)
(***************************************************************************)
Instances == {"a", "b"}

init_tables == <<
    [name |-> "workspaces", columns |-> <<"id", "name", "owner_id", "created_at", "plan", "status">>],
    [name |-> "users", columns |-> <<"id", "email", "name", "workspace_id", "role", "created_at">>],
    [name |-> "agents", columns |-> <<"id", "workspace_id", "name", "language", "llm_model", "status", "created_at">>],
    [name |-> "integrations", columns |-> <<"id", "workspace_id", "type", "config", "status", "last_sync_at", "created_at">>],
    [name |-> "agent_tools", columns |-> <<"id", "agent_id", "tool_name", "tool_config", "created_at">>],
    [name |-> "agent_runs", columns |-> <<"id", "agent_id", "workspace_id", "run_type", "status", "duration_ms", "started_at", "completed_at">>],
    [name |-> "test_runs", columns |-> <<"id", "agent_id", "workspace_id", "test_input", "expected_output", "actual_output", "result", "error_message", "created_at">>],
    [name |-> "run_logs", columns |-> <<"id", "run_id", "step", "event_type", "message", "payload", "timestamp">>],
    [name |-> "errors", columns |-> <<"id", "run_id", "workspace_id", "source", "code", "message", "metadata", "created_at">>],
    [name |-> "integration_sync_logs", columns |-> <<"id", "integration_id", "workspace_id", "sync_type", "status", "items_synced", "error_message", "created_at">>],
    [name |-> "billing_usage", columns |-> <<"id", "workspace_id", "agent_id", "characters_generated", "calls_made", "tokens_used", "total_cost_usd", "created_at">>],
    [name |-> "audit_events", columns |-> <<"id", "workspace_id", "user_id", "action", "entity", "before", "after", "created_at">>] >>

init_languages ==
    [english |-> "en", hindi |-> "hi", gujarati |-> "gu", tamil |-> "ta",
     telugu |-> "te", marathi |-> "mr", bengali |-> "bn", kannada |-> "kn",
     malayalam |-> "ml", punjabi |-> "pa"]

(***************************************************************************)
(* LocalNLtoSQL._build_patterns                                            *)
(***************************************************************************)
SP         == Cls("s", 1)                               \* \s+
SP0        == Cls("s", 0)                               \* \s*
NUM        == Cap(<<Cls("d", 1)>>)                      \* (\d+)
WORD       == Cap(<<Cls("w", 1)>>)                      \* (\w+)
OptLit(s)  == Opt(<<Lit(s)>>)                           \* e.g. s?
Words(ws)  == Alt([k \in 1..Len(ws) |-> <<Lit(ws[k])>>]) \* (?:w1|w2|...)
OptAll     == Opt(<<Lit("all"), SP>>)                   \* (?:all\s+)?
OptBy      == Opt(<<Lit("by"), SP>>)                    \* (?:by\s+)?
UNIT       == Cap(<<Words(<<"hour", "day", "week", "month">>)>>)
\* (?:for|in|from)?\s*(?:the)?\s*last\s+(\d+)\s+(hour|day|week|month)s?
InLast     == <<Opt(<<Words(<<"for", "in", "from">>)>>), SP0, OptLit("the"), SP0,
               Lit("last"), SP, NUM, SP, UNIT, OptLit("s")>>
Verb4      == Words(<<"show", "list", "get", "find">>)
Verb3      == Words(<<"show", "list", "get">>)

_build_patterns == <<
    [pattern |-> "top\\s+(\\d+)\\s+errors?\\s+(?:for|in|from)?\\s*(?:the)?\\s*last\\s+(\\d+)\\s+(hour|day|week|month)s?",
     re      |-> <<Lit("top"), SP, NUM, SP, Lit("error"), OptLit("s"), SP>> \o InLast,
     handler |-> "_handle_top_errors"],
    [pattern |-> "(?:show|list|get|find)\\s+(?:all\\s+)?errors?\\s+(?:for|in|from)?\\s*(?:the)?\\s*last\\s+(\\d+)\\s+(hour|day|week|month)s?",
     re      |-> <<Verb4, SP, OptAll, Lit("error"), OptLit("s"), SP>> \o InLast,
     handler |-> "_handle_errors_timeframe"],
    [pattern |-> "(?:show|list|get|find)\\s+(?:all\\s+)?failed\\s+test\\s*runs?\\s+(?:for|in|from)?\\s*(?:the)?\\s*last\\s+(\\d+)\\s+(hour|day|week|month)s?",
     re      |-> <<Verb4, SP, OptAll, Lit("failed"), SP, Lit("test"), SP0, Lit("run"),
                   OptLit("s"), SP>> \o InLast,
     handler |-> "_handle_failed_tests"],
    [pattern |-> "(?:show|list|get|find)\\s+(?:all\\s+)?(?:successful|passed)\\s+test\\s*runs?",
     re      |-> <<Verb4, SP, OptAll, Words(<<"successful", "passed">>), SP, Lit("test"),
                   SP0, Lit("run"), OptLit("s")>>,
     handler |-> "_handle_successful_tests"],
    [pattern |-> "(?:which|what|show|list)\\s+integrations?\\s+(?:are\\s+)?inactive",
     re      |-> <<Words(<<"which", "what", "show", "list">>), SP, Lit("integration"),
                   OptLit("s"), SP, Opt(<<Lit("are"), SP>>), Lit("inactive")>>,
     handler |-> "_handle_inactive_integrations"],
    [pattern |-> "(?:show|list|get)\\s+(?:all\\s+)?integrations?\\s+(?:by\\s+)?status",
     re      |-> <<Verb3, SP, OptAll, Lit("integration"), OptLit("s"), SP, OptBy,
                   Lit("status")>>,
     handler |-> "_handle_integrations_by_status"],
    [pattern |-> "(?:show|list|get|find)\\s+(?:all\\s+)?agents?\\s+(?:using|with|in)\\s+(\\w+)\\s+language",
     re      |-> <<Verb4, SP, OptAll, Lit("agent"), OptLit("s"), SP,
                   Words(<<"using", "with", "in">>), SP, WORD, SP, Lit("language")>>,
     handler |-> "_handle_agents_by_language"],
    [pattern |-> "(?:show|list|get)\\s+(?:all\\s+)?agents?",
     re      |-> <<Verb3, SP, OptAll, Lit("agent"), OptLit("s")>>,
     handler |-> "_handle_all_agents"],
    [pattern |-> "(?:show|list|get)\\s+(?:all\\s+)?workspaces?",
     re      |-> <<Verb3, SP, OptAll, Lit("workspace"), OptLit("s")>>,
     handler |-> "_handle_all_workspaces"],
    [pattern |-> "workspaces?\\s+(?:by\\s+)?plan",
     re      |-> <<Lit("workspace"), OptLit("s"), SP, OptBy, Lit("plan")>>,
     handler |-> "_handle_workspaces_by_plan"],
    [pattern |-> "(?:how many|count)\\s+(\\w+)",
     re      |-> <<Words(<<"how many", "count">>), SP, WORD>>,
     handler |-> "_handle_count"],
    [pattern |-> "errors?\\s+(?:by\\s+)?source",
     re      |-> <<Lit("error"), OptLit("s"), SP, OptBy, Lit("source")>>,
     handler |-> "_handle_errors_by_source"],
    [pattern |-> "agent\\s+runs?\\s+(?:by\\s+)?status",
     re      |-> <<Lit("agent"), SP, Lit("run"), OptLit("s"), SP, OptBy, Lit("status")>>,
     handler |-> "_handle_agent_runs_status"],
    [pattern |-> "(?:billing|usage|cost)\\s+(?:by\\s+)?workspace",
     re      |-> <<Words(<<"billing", "usage", "cost">>), SP, OptBy, Lit("workspace")>>,
     handler |-> "_handle_billing_by_workspace"],
    [pattern |-> "(?:top|highest)\\s+(\\d+)\\s+(?:token|cost|usage)",
     re      |-> <<Words(<<"top", "highest">>), SP, NUM, SP,
                   Words(<<"token", "cost", "usage">>)>>,
     handler |-> "_handle_top_usage"] >>

(***************************************************************************)
(* What a call gives its caller: a pair (sql, explanation) of Optionals,   *)
(* or an exception.                                                        *)
(***************************************************************************)
Returns(sql, explanation) == [raised |-> FALSE, sql |-> sql, explanation |-> explanation]
Raises == [raised |-> TRUE, sql |-> <<>>, explanation |-> <<>>]

(***************************************************************************)
(* LocalNLtoSQL._get_time_filter: [raised, text]                           *)
(***************************************************************************)
unit_map   == [hour |-> "hours", day |-> "days", week |-> "days", month |-> "days"]
\* Faulty variant: weeks and months are written as that many days.
multiplier_unscaled == [hour |-> 1, day |-> 1, week |-> 1, month |-> 1]

multiplier == [hour |-> 1, day |-> 1, week |-> 7, month |-> 30]

\* Faulty variant: the bound is computed from the clock when the question is
\* translated, not left to the database as 'now'.
_get_time_filter_absolute(value, unit) ==
    LET m            == IF unit \in DOMAIN multiplier THEN multiplier[unit] ELSE 1
        actual_value == DecMul(value, m)
        actual_unit  == IF unit \in DOMAIN unit_map THEN unit_map[unit] ELSE "days"
    IN  IF Len(value) > IntMaxStrDigits \/ Len(actual_value) > IntMaxStrDigits
        THEN [raised |-> TRUE, text |-> ""]
        ELSE [raised |-> FALSE,
              text   |-> "datetime('" \o NatToStr(now) \o "', '-" \o actual_value
                            \o " " \o actual_unit \o "')"]

_get_time_filter(value, unit) ==
    LET m            == IF unit \in DOMAIN multiplier THEN multiplier[unit] ELSE 1
        actual_value == DecMul(value, m)
        actual_unit  == IF unit \in DOMAIN unit_map THEN unit_map[unit] ELSE "days"
    IN  IF Len(value) > IntMaxStrDigits \/ Len(actual_value) > IntMaxStrDigits
        THEN [raised |-> TRUE, text |-> ""]
        ELSE [raised |-> FALSE,
              text   |-> "datetime('now', '-" \o actual_value \o " " \o actual_unit \o "')"]

(***************************************************************************)
(* The handlers.  i is the instance (self), match the re.Match, q the      *)
(* normalized question.                                                    *)
(***************************************************************************)
\* Faulty variant: the limit is taken from the second group, the duration.
_handle_top_errors_swapped(i, match, q) ==
    LET
        limit == match.groups[2]
        time_value == match.groups[2]
        time_unit == match.groups[3]
        time_filter == _get_time_filter(time_value, time_unit)
        sql ==
               "\n"
                  \o "        SELECT code, message, source, COUNT(*) as error_count \n"
                  \o "        FROM errors \n"
                  \o "        WHERE created_at >= " \o time_filter.text \o "\n"
                  \o "        GROUP BY code, message, source \n"
                  \o "        ORDER BY error_count DESC \n"
                  \o "        LIMIT " \o limit \o "\n"
                  \o "        "
        explanation == "Finding top " \o limit \o " errors from the last " \o time_value \o " " \o time_unit \o "(s)"
    IN  IF time_filter.raised THEN Raises ELSE Returns(<<Strip(sql)>>, <<explanation>>)

_handle_top_errors(i, match, q) ==
    LET
        limit == match.groups[1]
        time_value == match.groups[2]
        time_unit == match.groups[3]
        time_filter == _get_time_filter(time_value, time_unit)
        sql ==
               "\n"
                  \o "        SELECT code, message, source, COUNT(*) as error_count \n"
                  \o "        FROM errors \n"
                  \o "        WHERE created_at >= " \o time_filter.text \o "\n"
                  \o "        GROUP BY code, message, source \n"
                  \o "        ORDER BY error_count DESC \n"
                  \o "        LIMIT " \o limit \o "\n"
                  \o "        "
        explanation == "Finding top " \o limit \o " errors from the last " \o time_value \o " " \o time_unit \o "(s)"
    IN  IF time_filter.raised THEN Raises ELSE Returns(<<Strip(sql)>>, <<explanation>>)

\* Faulty variant: the bound is strict, rows created at the bound are left out.
_handle_errors_timeframe_strict(i, match, q) ==
    LET
        time_value == match.groups[1]
        time_unit == match.groups[2]
        time_filter == _get_time_filter(time_value, time_unit)
        sql ==
               "\n"
                  \o "        SELECT * \n"
                  \o "        FROM errors \n"
                  \o "        WHERE created_at > " \o time_filter.text \o "\n"
                  \o "        ORDER BY created_at DESC\n"
                  \o "        "
        explanation == "Showing all errors from the last " \o time_value \o " " \o time_unit \o "(s)"
    IN  IF time_filter.raised THEN Raises ELSE Returns(<<Strip(sql)>>, <<explanation>>)

_handle_errors_timeframe(i, match, q) ==
    LET
        time_value == match.groups[1]
        time_unit == match.groups[2]
        time_filter == _get_time_filter(time_value, time_unit)
        sql ==
               "\n"
                  \o "        SELECT * \n"
                  \o "        FROM errors \n"
                  \o "        WHERE created_at >= " \o time_filter.text \o "\n"
                  \o "        ORDER BY created_at DESC\n"
                  \o "        "
        explanation == "Showing all errors from the last " \o time_value \o " " \o time_unit \o "(s)"
    IN  IF time_filter.raised THEN Raises ELSE Returns(<<Strip(sql)>>, <<explanation>>)

_handle_failed_tests(i, match, q) ==
    LET
        time_value == match.groups[1]
        time_unit == match.groups[2]
        time_filter == _get_time_filter(time_value, time_unit)
        sql ==
               "\n"
                  \o "        SELECT tr.*, a.name as agent_name \n"
                  \o "        FROM test_runs tr \n"
                  \o "        JOIN agents a ON tr.agent_id = a.id \n"
                  \o "        WHERE tr.result = 'fail' \n"
                  \o "        AND tr.created_at >= " \o time_filter.text \o "\n"
                  \o "        ORDER BY tr.created_at DESC\n"
                  \o "        "
        explanation == "Finding failed test runs from the last " \o time_value \o " " \o time_unit \o "(s)"
    IN  IF time_filter.raised THEN Raises ELSE Returns(<<Strip(sql)>>, <<explanation>>)

_handle_successful_tests(i, match, q) ==
    LET sql ==
               "\n"
                  \o "        SELECT tr.*, a.name as agent_name \n"
                  \o "        FROM test_runs tr \n"
                  \o "        JOIN agents a ON tr.agent_id = a.id \n"
                  \o "        WHERE tr.result = 'pass' \n"
                  \o "        ORDER BY tr.created_at DESC\n"
                  \o "        "
        explanation == "Finding all successful test runs"
    IN  Returns(<<Strip(sql)>>, <<explanation>>)

_handle_inactive_integrations(i, match, q) ==
    LET sql ==
               "\n"
                  \o "        SELECT i.*, w.name as workspace_name \n"
                  \o "        FROM integrations i \n"
                  \o "        JOIN workspaces w ON i.workspace_id = w.id \n"
                  \o "        WHERE i.status = 'inactive'\n"
                  \o "        ORDER BY i.created_at DESC\n"
                  \o "        "
        explanation == "Finding all inactive integrations"
    IN  Returns(<<Strip(sql)>>, <<explanation>>)

_handle_integrations_by_status(i, match, q) ==
    LET sql ==
               "\n"
                  \o "        SELECT type, status, COUNT(*) as count \n"
                  \o "        FROM integrations \n"
                  \o "        GROUP BY type, status \n"
                  \o "        ORDER BY type, status\n"
                  \o "        "
        explanation == "Grouping integrations by type and status"
    IN  Returns(<<Strip(sql)>>, <<explanation>>)

\* Faulty variant: an unknown language name is used whole, not cut to two
\* characters.
_handle_agents_by_language_whole(i, match, q) ==
    LET language_name == Lower(match.groups[1])
        language_code ==
            IF language_name \in DOMAIN languages[i] THEN languages[i][language_name]
            ELSE language_name
        sql ==
               "\n"
                  \o "        SELECT a.*, w.name as workspace_name \n"
                  \o "        FROM agents a \n"
                  \o "        JOIN workspaces w ON a.workspace_id = w.id \n"
                  \o "        WHERE a.language = '" \o language_code \o "'\n"
                  \o "        ORDER BY a.created_at DESC\n"
                  \o "        "
        explanation == "Finding all agents using " \o language_name \o " language"
    IN  Returns(<<Strip(sql)>>, <<explanation>>)

\* Faulty variant: the code is always the first two characters of the name.
_handle_agents_by_language_prefix(i, match, q) ==
    LET language_name == Lower(match.groups[1])
        language_code == SubSeq(language_name, 1, Min({2, Len(language_name)}))
        sql ==
               "\n"
                  \o "        SELECT a.*, w.name as workspace_name \n"
                  \o "        FROM agents a \n"
                  \o "        JOIN workspaces w ON a.workspace_id = w.id \n"
                  \o "        WHERE a.language = '" \o language_code \o "'\n"
                  \o "        ORDER BY a.created_at DESC\n"
                  \o "        "
        explanation == "Finding all agents using " \o language_name \o " language"
    IN  Returns(<<Strip(sql)>>, <<explanation>>)

_handle_agents_by_language(i, match, q) ==
    LET language_name == Lower(match.groups[1])
        \* self.languages.get(language_name, language_name[:2])
        language_code ==
            IF language_name \in DOMAIN languages[i] THEN languages[i][language_name]
            ELSE SubSeq(language_name, 1, Min({2, Len(language_name)}))
        sql ==
               "\n"
                  \o "        SELECT a.*, w.name as workspace_name \n"
                  \o "        FROM agents a \n"
                  \o "        JOIN workspaces w ON a.workspace_id = w.id \n"
                  \o "        WHERE a.language = '" \o language_code \o "'\n"
                  \o "        ORDER BY a.created_at DESC\n"
                  \o "        "
        explanation == "Finding all agents using " \o language_name \o " language"
    IN  Returns(<<Strip(sql)>>, <<explanation>>)

_handle_all_agents(i, match, q) ==
    LET sql ==
               "\n"
                  \o "        SELECT a.*, w.name as workspace_name \n"
                  \o "        FROM agents a \n"
                  \o "        JOIN workspaces w ON a.workspace_id = w.id \n"
                  \o "        ORDER BY a.created_at DESC\n"
                  \o "        "
        explanation == "Listing all agents"
    IN  Returns(<<Strip(sql)>>, <<explanation>>)

_handle_all_workspaces(i, match, q) ==
    LET sql ==
               "\n"
                  \o "        SELECT * \n"
                  \o "        FROM workspaces \n"
                  \o "        ORDER BY created_at DESC\n"
                  \o "        "
        explanation == "Listing all workspaces"
    IN  Returns(<<Strip(sql)>>, <<explanation>>)

_handle_workspaces_by_plan(i, match, q) ==
    LET sql ==
               "\n"
                  \o "        SELECT plan, COUNT(*) as count \n"
                  \o "        FROM workspaces \n"
                  \o "        GROUP BY plan \n"
                  \o "        ORDER BY count DESC\n"
                  \o "        "
        explanation == "Grouping workspaces by plan type"
    IN  Returns(<<Strip(sql)>>, <<explanation>>)

\* Faulty variant: the entity must be a prefix of the table name.
_handle_count_prefix(i, match, q) ==
    LET entity == Lower(match.groups[1])
        hits == {k \in 1..Len(tables[i]) : StartsWith(tables[i][k].name, entity)}
        table == tables[i][Min(hits)].name
        sql == "SELECT COUNT(*) as count FROM " \o table
        explanation == "Counting total " \o entity
    IN  IF hits = {} THEN Returns(<<>>, <<>>)
        ELSE Returns(<<Strip(sql)>>, <<explanation>>)

\* Faulty variant: only the part of the entity before its first underscore is
\* looked up.
_handle_count_first_word(i, match, q) ==
    LET whole  == Lower(match.groups[1])
        cut    == {p \in 1..Len(whole) : Ch(whole, p) = "_"}
        entity == IF cut = {} THEN whole ELSE SubSeq(whole, 1, Min(cut) - 1)
        hits == {k \in 1..Len(tables[i]) :
                    \/ Contains(tables[i][k].name, entity)
                    \/ StartsWith(tables[i][k].name, entity)}
        table == tables[i][Min(hits)].name
        sql == "SELECT COUNT(*) as count FROM " \o table
        explanation == "Counting total " \o whole
    IN  IF hits = {} THEN Returns(<<>>, <<>>)
        ELSE Returns(<<Strip(sql)>>, <<explanation>>)

_handle_count(i, match, q) ==
    LET entity == Lower(match.groups[1])
        \* the first table, in dict order, that the loop of lines 289-292 stops at
        hits == {k \in 1..Len(tables[i]) :
                    \/ Contains(tables[i][k].name, entity)
                    \/ StartsWith(tables[i][k].name, entity)}
        table == tables[i][Min(hits)].name
        sql == "SELECT COUNT(*) as count FROM " \o table
        explanation == "Counting total " \o entity
    IN  IF hits = {} THEN Returns(<<>>, <<>>)
        ELSE Returns(<<Strip(sql)>>, <<explanation>>)

_handle_errors_by_source(i, match, q) ==
    LET sql ==
               "\n"
                  \o "        SELECT source, COUNT(*) as count \n"
                  \o "        FROM errors \n"
                  \o "        GROUP BY source \n"
                  \o "        ORDER BY count DESC\n"
                  \o "        "
        explanation == "Grouping errors by source"
    IN  Returns(<<Strip(sql)>>, <<explanation>>)

_handle_agent_runs_status(i, match, q) ==
    LET sql ==
               "\n"
                  \o "        SELECT a.name as agent_name, ar.status, COUNT(*) as count \n"
                  \o "        FROM agent_runs ar \n"
                  \o "        JOIN agents a ON ar.agent_id = a.id \n"
                  \o "        GROUP BY a.name, ar.status \n"
                  \o "        ORDER BY a.name, ar.status\n"
                  \o "        "
        explanation == "Grouping agent runs by status"
    IN  Returns(<<Strip(sql)>>, <<explanation>>)

\* Faulty variant: the usage table is called by a name the schema does not have.
_handle_billing_by_workspace_misnamed(i, match, q) ==
    LET sql ==
               "\n"
                  \o "        SELECT w.name as workspace_name, \n"
                  \o "               SUM(b.total_cost_usd) as total_cost, \n"
                  \o "               SUM(b.tokens_used) as total_tokens,\n"
                  \o "               SUM(b.calls_made) as total_calls\n"
                  \o "        FROM billing b \n"
                  \o "        JOIN workspaces w ON b.workspace_id = w.id \n"
                  \o "        GROUP BY w.id, w.name \n"
                  \o "        ORDER BY total_cost DESC\n"
                  \o "        "
        explanation == "Showing billing usage by workspace"
    IN  Returns(<<Strip(sql)>>, <<explanation>>)

_handle_billing_by_workspace(i, match, q) ==
    LET sql ==
               "\n"
                  \o "        SELECT w.name as workspace_name, \n"
                  \o "               SUM(b.total_cost_usd) as total_cost, \n"
                  \o "               SUM(b.tokens_used) as total_tokens,\n"
                  \o "               SUM(b.calls_made) as total_calls\n"
                  \o "        FROM billing_usage b \n"
                  \o "        JOIN workspaces w ON b.workspace_id = w.id \n"
                  \o "        GROUP BY w.id, w.name \n"
                  \o "        ORDER BY total_cost DESC\n"
                  \o "        "
        explanation == "Showing billing usage by workspace"
    IN  Returns(<<Strip(sql)>>, <<explanation>>)

_handle_top_usage(i, match, q) ==
    LET limit == match.groups[1]
        sql ==
               "\n"
                  \o "        SELECT a.name as agent_name, \n"
                  \o "               SUM(b.tokens_used) as total_tokens,\n"
                  \o "               SUM(b.total_cost_usd) as total_cost\n"
                  \o "        FROM billing_usage b \n"
                  \o "        JOIN agents a ON b.agent_id = a.id \n"
                  \o "        GROUP BY a.name \n"
                  \o "        ORDER BY total_tokens DESC \n"
                  \o "        LIMIT " \o limit \o "\n"
                  \o "        "
        explanation == "Finding top " \o limit \o " agents by token usage"
    IN  Returns(<<Strip(sql)>>, <<explanation>>)

\* Faulty variant: the statement ends with a separator.
_keyword_based_query_terminated(i, q) ==
    LET hits == {k \in 1..Len(tables[i]) :
                    \/ Contains(q, Replace(tables[i][k].name, "_", " "))
                    \/ Contains(q, tables[i][k].name)}
        table == tables[i][Min(hits)].name
        sql == "SELECT * FROM " \o table \o " LIMIT 100;"
        explanation == "Showing data from " \o table \o " table"
    IN  IF hits = {}
        THEN Returns(<<>>, <<"Could not understand the question. Try using query templates or be more specific.">>)
        ELSE Returns(<<sql>>, <<explanation>>)

\* Faulty variant: no table found gives no reason either.
_keyword_based_query_silent(i, q) ==
    LET hits == {k \in 1..Len(tables[i]) :
                    \/ Contains(q, Replace(tables[i][k].name, "_", " "))
                    \/ Contains(q, tables[i][k].name)}
        table == tables[i][Min(hits)].name
        sql == "SELECT * FROM " \o table \o " LIMIT 100"
        explanation == "Showing data from " \o table \o " table"
    IN  IF hits = {}
        THEN Returns(<<>>, <<>>)
        ELSE Returns(<<sql>>, <<explanation>>)

\* Faulty variant: the loop over the tables does not stop at the first hit, so
\* the last table named wins.
_keyword_based_query_unbroken(i, q) ==
    LET hits == {k \in 1..Len(tables[i]) :
                    \/ Contains(q, Replace(tables[i][k].name, "_", " "))
                    \/ Contains(q, tables[i][k].name)}
        table == tables[i][CHOOSE k \in hits : \A j \in hits : j <= k].name
        sql == "SELECT * FROM " \o table \o " LIMIT 100"
        explanation == "Showing data from " \o table \o " table"
    IN  IF hits = {}
        THEN Returns(<<>>, <<"Could not understand the question. Try using query templates or be more specific.">>)
        ELSE Returns(<<sql>>, <<explanation>>)
_keyword_based_query(i, q) ==
    LET \* the first table, in dict order, that the loop of lines 365-368 stops at
        hits == {k \in 1..Len(tables[i]) :
                    \/ Contains(q, Replace(tables[i][k].name, "_", " "))
                    \/ Contains(q, tables[i][k].name)}
        table == tables[i][Min(hits)].name
        sql == "SELECT * FROM " \o table \o " LIMIT 100"
        explanation == "Showing data from " \o table \o " table"
    IN  IF hits = {}
        THEN Returns(<<>>, <<"Could not understand the question. Try using query templates or be more specific.">>)
        ELSE Returns(<<sql>>, <<explanation>>)

(***************************************************************************)
(* LocalNLtoSQL.parse_question                                             *)
(***************************************************************************)
\* pattern_info['handler'](match, question)
CallHandler(handler, i, match, q) ==
    CASE
         handler = "_handle_top_errors" -> _handle_top_errors(i, match, q)
      [] handler = "_handle_errors_timeframe" -> _handle_errors_timeframe(i, match, q)
      [] handler = "_handle_failed_tests" -> _handle_failed_tests(i, match, q)
      [] handler = "_handle_successful_tests" -> _handle_successful_tests(i, match, q)
      [] handler = "_handle_inactive_integrations" -> _handle_inactive_integrations(i, match, q)
      [] handler = "_handle_integrations_by_status" -> _handle_integrations_by_status(i, match, q)
      [] handler = "_handle_agents_by_language" -> _handle_agents_by_language(i, match, q)
      [] handler = "_handle_all_agents" -> _handle_all_agents(i, match, q)
      [] handler = "_handle_all_workspaces" -> _handle_all_workspaces(i, match, q)
      [] handler = "_handle_workspaces_by_plan" -> _handle_workspaces_by_plan(i, match, q)
      [] handler = "_handle_count" -> _handle_count(i, match, q)
      [] handler = "_handle_errors_by_source" -> _handle_errors_by_source(i, match, q)
      [] handler = "_handle_agent_runs_status" -> _handle_agent_runs_status(i, match, q)
      [] handler = "_handle_billing_by_workspace" -> _handle_billing_by_workspace(i, match, q)
      [] handler = "_handle_top_usage" -> _handle_top_usage(i, match, q)

\* Faulty variant: no try/except around the handler, so its exception leaves
\* parse_question.
TryRuleUncaught(i, k, q) ==
    LET pattern_info == patterns[i][k]
        match        == Search(pattern_info.re, q)
        out          == CallHandler(pattern_info.handler, i, match, q)
    IN  IF match.found
        THEN [returned |-> TRUE, value |-> out]
        ELSE [returned |-> FALSE, value |-> Raises]

\* One pass of the loop body (lines 126-133) for pattern k.  returned: the
\* method returns value; otherwise the loop goes on (no match, or `continue`
\* after an exception of the handler).
TryRule(i, k, q) ==
    LET pattern_info == patterns[i][k]
        match        == Search(pattern_info.re, q)
        out          == CallHandler(pattern_info.handler, i, match, q)
    IN  IF match.found /\ ~out.raised
        THEN [returned |-> TRUE, value |-> out]
        ELSE [returned |-> FALSE, value |-> Raises]

\* the loop from pattern k on, then line 136
RECURSIVE TryRulesFrom(_, _, _)
TryRulesFrom(i, k, q) ==
    IF k > Len(patterns[i]) THEN _keyword_based_query(i, q)
    ELSE LET step == TryRule(i, k, q)
         IN  IF step.returned THEN step.value ELSE TryRulesFrom(i, k + 1, q)

\* Faulty variant: the question is trimmed but not put in lower case.
Normalized_cased(question_) == Strip(question_)

\* line 123
Normalized(question_) == Strip(Lower(question_))

\* Faulty variant: the rules are tried last to first.
RECURSIVE TryRulesBackwards(_, _, _)
TryRulesBackwards(i, k, q) ==
    IF k < 1 THEN _keyword_based_query(i, q)
    ELSE LET step == TryRule(i, k, q)
         IN  IF step.returned THEN step.value ELSE TryRulesBackwards(i, k - 1, q)

parse_question_reversed(i, question_) ==
    TryRulesBackwards(i, Len(patterns[i]), Normalized(question_))

\* Faulty variant: the loop over the rules starts at the second rule.
parse_question_skipping_first(i, question_) ==
    TryRulesFrom(i, 2, Normalized(question_))

parse_question(i, question_) == TryRulesFrom(i, 1, Normalized(question_))

(***************************************************************************)
(* LocalNLtoSQL.get_suggestions                                            *)
(***************************************************************************)
get_suggestions == <<
    "Top 5 errors for the last 24 hours",
    "Show all failed test runs from last week",
    "Which integrations are inactive",
    "List all agents using Gujarati language",
    "Show all workspaces",
    "Workspaces by plan",
    "How many agents",
    "Errors by source",
    "Agent runs by status",
    "Billing by workspace",
    "Top 10 token users",
    "Show errors for last 7 days",
    "List all agents",
    "Show successful test runs" >>

(***************************************************************************)
(* The questions asked.                                                    *)
(***************************************************************************)
MaxWords == 2
MaxClock == 1

Vocabulary == {
    "Top 5 errors", "for the last 24 hours", "Show all", "agents", "How many",
    "count the", "foo", "agents using DROP language", "errors by source",
    "users; DELETE FROM users", "\t", "list failed test runs in last 2 weeks" }

\* up to n vocabulary entries, separated by single spaces
RECURSIVE Composed(_)
Composed(n) ==
    IF n = 0 THEN {""}
    ELSE LET shorter == Composed(n - 1)
         IN  shorter \cup {IF p = "" THEN w ELSE p \o " " \o w :
                              p \in shorter, w \in Vocabulary}

\* n copies of s
RECURSIVE Rep(_, _)
Rep(s, n) ==
    IF n = 0 THEN ""
    ELSE IF n = 1 THEN s
    ELSE Rep(s, n \div 2) \o Rep(s, n - n \div 2)

\* durations at the limit of int/str conversion
LongDurations == {
    "top 5 errors in last " \o Rep("9", IntMaxStrDigits) \o " days",
    "show errors in last " \o Rep("9", IntMaxStrDigits) \o " weeks",
    "how many agents had top 5 errors in last " \o Rep("0", IntMaxStrDigits + 1) \o " hours" }

RangeOf(seq) == {seq[k] : k \in 1..Len(seq)}

Questions == Composed(MaxWords) \cup RangeOf(get_suggestions) \cup LongDurations

\* the questions of the interleaved callers
ConcQuestions == {
    "Top 5 errors for the last 24 hours", "How many agents", "audit events please" }

Callers == {"c1", "c2"}

(***************************************************************************)
(* The state machine.                                                      *)
(***************************************************************************)
NoResult == Returns(<<>>, <<>>)

\* What the model service gave a call: a text, nothing, an HTTP status other
\* than 200, or an exception with its message.
Answered(kind, text, status) == [kind |-> kind, text |-> text, status |-> status]

\* no model service was asked
NoResponse == Answered("unasked", "", 0)

Init ==
    /\ tables      = [i \in Instances |-> init_tables]
    /\ languages   = [i \in Instances |-> init_languages]
    /\ patterns    = [i \in Instances |-> _build_patterns]
    /\ now         = 0
    /\ self        = [t \in Callers |-> "a"]
    /\ question    = [t \in Callers |-> ""]
    /\ norm        = [t \in Callers |-> ""]
    /\ idx         = [t \in Callers |-> 0]
    /\ pc          = [t \in Callers |-> "idle"]
    /\ result      = [t \in Callers |-> NoResult]
    /\ returned_at = [t \in Callers |-> 0]
    /\ suggestions = [t \in Callers |-> <<>>]
    /\ response    = [t \in Callers |-> NoResponse]
    /\ executed    = <<>>
    /\ query_history = <<>>

\* caller t calls parse_question(q) on instance i
Call(t, i, q) ==
    /\ pc[t] = "idle"
    /\ self'        = [self EXCEPT ![t] = i]
    /\ question'    = [question EXCEPT ![t] = q]
    /\ norm'        = [norm EXCEPT ![t] = ""]
    /\ idx'         = [idx EXCEPT ![t] = 0]
    /\ pc'          = [pc EXCEPT ![t] = "called"]
    /\ result'      = [result EXCEPT ![t] = NoResult]
    /\ returned_at' = [returned_at EXCEPT ![t] = 0]
    /\ suggestions' = [suggestions EXCEPT ![t] = <<>>]
    /\ UNCHANGED <<tables, languages, patterns, now>>
    /\ UNCHANGED <<response, executed, query_history>>

\* the method returns (or raises) `out` to caller t; its locals are gone
Finish(t, out) ==
    /\ result'      = [result EXCEPT ![t] = out]
    /\ returned_at' = [returned_at EXCEPT ![t] = now]
    /\ norm'        = [norm EXCEPT ![t] = ""]
    /\ idx'         = [idx EXCEPT ![t] = 0]
    /\ pc'          = [pc EXCEPT ![t] = "done"]

\* Faulty variant: the call consumes the first rule of the instance.
ParseQuestionConsuming(t) ==
    /\ pc[t] = "called"
    /\ Finish(t, parse_question(self[t], question[t]))
    /\ patterns' = [patterns EXCEPT ![self[t]] = Tail(@)]
    /\ UNCHANGED <<tables, languages, now, self, question, suggestions>>
    /\ UNCHANGED <<response, executed, query_history>>

\* parse_question as a whole (lines 118-136)
ParseQuestion(t) ==
    /\ pc[t] = "called"
    /\ Finish(t, parse_question(self[t], question[t]))
    /\ UNCHANGED <<tables, languages, patterns, now, self, question, suggestions>>
    /\ UNCHANGED <<response, executed, query_history>>

\* get_suggestions as a whole (lines 400-417)
GetSuggestions(t, i) ==
    /\ pc[t] = "idle"
    /\ self'        = [self EXCEPT ![t] = i]
    /\ question'    = [question EXCEPT ![t] = ""]
    /\ result'      = [result EXCEPT ![t] = NoResult]
    /\ returned_at' = [returned_at EXCEPT ![t] = now]
    /\ suggestions' = [suggestions EXCEPT ![t] = get_suggestions]
    /\ pc'          = [pc EXCEPT ![t] = "suggested"]
    /\ UNCHANGED <<tables, languages, patterns, now, norm, idx>>
    /\ UNCHANGED <<response, executed, query_history>>

\* Faulty variant: the normalized question is kept in one place for all
\* callers (a field of the instance), not in a local of the call.
NormalizeShared(t) ==
    /\ pc[t] = "called"
    /\ norm' = [u \in Callers |-> Normalized(question[t])]
    /\ idx'  = [idx EXCEPT ![t] = 1]
    /\ pc'   = [pc EXCEPT ![t] = "loop"]
    /\ UNCHANGED <<tables, languages, patterns, now, self, question, result,
                   returned_at, suggestions>>
    /\ UNCHANGED <<response, executed, query_history>>

\* parse_question step by step, for callers that run it at the same time
\* line 123
Normalize(t) ==
    /\ pc[t] = "called"
    /\ norm' = [norm EXCEPT ![t] = Normalized(question[t])]
    /\ idx'  = [idx EXCEPT ![t] = 1]
    /\ pc'   = [pc EXCEPT ![t] = "loop"]
    /\ UNCHANGED <<tables, languages, patterns, now, self, question, result,
                   returned_at, suggestions>>
    /\ UNCHANGED <<response, executed, query_history>>

\* lines 126-133, one pattern
TryPattern(t) ==
    /\ pc[t] = "loop"
    /\ idx[t] <= Len(patterns[self[t]])
    /\ LET step == TryRule(self[t], idx[t], norm[t])
       IN  IF step.returned
           THEN Finish(t, step.value)
           ELSE /\ idx' = [idx EXCEPT ![t] = idx[t] + 1]
                /\ UNCHANGED <<result, returned_at, norm, pc>>
    /\ UNCHANGED <<tables, languages, patterns, now, self, question, suggestions>>
    /\ UNCHANGED <<response, executed, query_history>>

\* line 136
Fallback(t) ==
    /\ pc[t] = "loop"
    /\ idx[t] > Len(patterns[self[t]])
    /\ Finish(t, _keyword_based_query(self[t], norm[t]))
    /\ UNCHANGED <<tables, languages, patterns, now, self, question, suggestions>>
    /\ UNCHANGED <<response, executed, query_history>>

\* caller t is done with what the last call gave it
Discard(t) ==
    /\ pc[t] \in {"done", "suggested"}
    /\ pc'          = [pc EXCEPT ![t] = "idle"]
    /\ question'    = [question EXCEPT ![t] = ""]
    /\ result'      = [result EXCEPT ![t] = NoResult]
    /\ returned_at' = [returned_at EXCEPT ![t] = 0]
    /\ suggestions' = [suggestions EXCEPT ![t] = <<>>]
    /\ UNCHANGED <<tables, languages, patterns, now, self, norm, idx>>
    /\ response'    = [response EXCEPT ![t] = NoResponse]
    /\ UNCHANGED <<executed, query_history>>

\* time passes
Tick ==
    /\ now < MaxClock
    /\ now' = now + 1
    /\ UNCHANGED <<tables, languages, patterns, self, question, norm, idx, pc,
                   result, returned_at, suggestions>>
    /\ UNCHANGED <<response, executed, query_history>>

\* one caller of one instance, whole calls, every question
Next ==
    \/ \E q \in Questions : Call("c1", "a", q)
    \/ ParseQuestion("c1")
    \/ GetSuggestions("c1", "a")
    \/ Discard("c1")

Spec == Init /\ [][Next]_vars

\* two callers whose calls interleave, while time passes
NextConc ==
    \/ \E t \in Callers, i \in Instances, q \in ConcQuestions : Call(t, i, q)
    \/ \E t \in Callers : Normalize(t)
    \/ \E t \in Callers : TryPattern(t)
    \/ \E t \in Callers : Fallback(t)
    \/ \E t \in Callers : Discard(t)
    \/ Tick

SpecConc == Init /\ [][NextConc]_vars

(***************************************************************************)
(* Questions of the shapes of the rules.                                   *)
(***************************************************************************)
MaxDuration == 2

\* the durations asked for: 0..MaxDuration, and one with leading zeros
DurationTexts == {NatToStr(v) : v \in 0..MaxDuration} \cup {"007"}

UnitWords == {"hour", "day", "week", "month"}

TimeHeads == {
    "top 3 errors in last ", "Top 10 errors for the last ",
    "show errors in last ", "list all failed test runs from the last " }

TimeQuestions ==
    {h \o v \o " " \o u \o pl :
        h \in TimeHeads, v \in DurationTexts, u \in UnitWords, pl \in {"", "s"}}

\* questions that the 'top N errors' rule and the 'show errors' rule both match
BothErrorQuestions == {
    "show errors in last 2 days top 5 errors in last 3 hours",
    "top 5 errors in last 3 hours, list all errors from the last 2 days",
    "show errors in last 2 days top 5 errors in last "
        \o Rep("0", IntMaxStrDigits + 1) \o " hours" }

LanguageNames == {
    "Gujarati", "GUJARATI", "hindi", "Punjabi", "Klingon", "kLINGON", "x", "zz" }

LanguageQuestions ==
    {h \o l \o " language" :
        h \in {"list all agents using ", "show agents with ", "find agent in "},
        l \in LanguageNames}

TableQuestions == {
    "users and agents", "agents and users", "tell me about test runs and agents",
    "audit events or run logs", "agent_tools", "the integration sync logs",
    "billing usage of workspaces", "nothing here" }

CountQuestions ==
    {h \o e : h \in {"How many ", "count "},
              e \in {"agents", "users", "a", "test", "run_logs", "errors",
                     "integration", "agent", "billing", "foo"}}

GroupingQuestions ==
    {h \o g : h \in {"", "show ", "list all ", "get ", "please "},
              g \in {"agent runs by status", "workspaces by plan", "agents",
                     "workspaces", "integrations by status",
                     "integration status"}}

\* failed test runs asked for without a leading verb
VerblessQuestions == {
    "failed test runs in last 2 days", "failed test runs for the last 1 week",
    "please, failed test run from last 3 months" }

DurationQuestions ==
    TimeQuestions \cup BothErrorQuestions \cup VerblessQuestions
        \cup {"Top 5 errors for the last 24 hours"}

\* a count of every table of the catalog, by its exact name
ExactCountQuestions ==
    {"count " \o init_tables[k].name : k \in 1..Len(init_tables)}

ShapeQuestions ==
    LanguageQuestions \cup TableQuestions \cup CountQuestions
        \cup GroupingQuestions \cup RangeOf(get_suggestions)
        \cup ExactCountQuestions
        \cup {"find failed test runs in the last 3 days"}

\* one caller of one instance, whole calls, the questions of the rules' shapes
NextShapes ==
    \/ \E q \in ShapeQuestions : Call("c1", "a", q)
    \/ ParseQuestion("c1")
    \/ Discard("c1")

SpecShapes == Init /\ [][NextShapes]_vars

\* one caller of one instance, whole calls, the questions with a duration
NextDurations ==
    \/ \E q \in DurationQuestions : Call("c1", "a", q)
    \/ ParseQuestion("c1")
    \/ Discard("c1")

SpecDurations == Init /\ [][NextDurations]_vars

\* the same questions written in other letter cases and with spaces around
CasedQuestions ==
    LET base == {"Top 5 errors for the last 24 hours",
                 "List all agents using Gujarati language",
                 "Users and Agents"}
    IN  UNION {{b, Upper(b), Lower(b), "  " \o b \o " \t"} : b \in base}

\* two callers, whole calls
NextPair ==
    \/ \E t \in Callers, q \in CasedQuestions : Call(t, "a", q)
    \/ \E t \in Callers : ParseQuestion(t)
    \/ \E t \in Callers : Discard(t)

SpecPair == Init /\ [][NextPair]_vars

(***************************************************************************)
(* The translators that ask a language model: GeminiNLtoSQL, OpenAINLtoSQL,*)
(* OllamaNLtoSQL and VannaNLtoSQL.  What the model service gives a call is *)
(* an input of the call: a text (kind "text"), None or no text ("none"),   *)
(* an exception with its message ("raise", and for requests also "timeout" *)
(* and "connection"), or an HTTP status other than 200 ("status").         *)
(***************************************************************************)
\* s.replace(old, ''): every occurrence of `old`, left to right
RECURSIVE Without(_, _)
Without(s, old) ==
    IF Len(s) < Len(old) THEN s
    ELSE IF StartsWith(s, old) THEN Without(SubSeq(s, Len(old) + 1, Len(s)), old)
    ELSE Ch(s, 1) \o Without(SubSeq(s, 2, Len(s)), old)

\* s.split(sep) for a one-character `sep`
RECURSIVE Split(_, _)
Split(s, sep) ==
    LET hits == {i \in 1..Len(s) : Ch(s, i) = sep}
    IN  IF hits = {} THEN <<s>>
        ELSE <<(IF Min(hits) = 1 THEN "" ELSE SubSeq(s, 1, Min(hits) - 1))>>
                 \o Split((IF Min(hits) = Len(s) THEN ""
                           ELSE SubSeq(s, Min(hits) + 1, Len(s))), sep)

\* s.rstrip(chars)
RStrip(s, chars) ==
    LET keep == {i \in 1..Len(s) : Ch(s, i) \notin chars}
    IN  IF keep = {} THEN ""
        ELSE SubSeq(s, 1, CHOOSE i \in keep : \A j \in keep : j <= i)

\* sep.join(lines)
RECURSIVE Join(_, _)
Join(sep, lines) ==
    IF Len(lines) = 0 THEN ""
    ELSE IF Len(lines) = 1 THEN lines[1]
    ELSE lines[1] \o sep \o Join(sep, Tail(lines))

\* The backquote cannot be written in a string of this language: the tilde,
\* which no text of the model holds otherwise, stands for it.
Backquote == "~"

\* the fence of a code block, three backquotes
Fence == Backquote \o Backquote \o Backquote

CouldNotGenerate == "Could not generate SQL query. Please try rephrasing your question."
OnlySelect == "Only SELECT queries are allowed for safety."

\* str(e) of the AttributeError that None.strip() raises
NoneHasNoStrip == "'NoneType' object has no attribute 'strip'"

\* GeminiNLtoSQL._clean_sql, the loop of lines 216-223 from line k on
RECURSIVE Gemini_sql_lines(_, _, _, _)
Gemini_sql_lines(lines, k, in_query, sql_lines) ==
    IF k > Len(lines) THEN sql_lines
    ELSE LET line == Strip(lines[k])
             now_in_query == in_query \/ StartsWith(Upper(line), "SELECT")
         IN  IF ~now_in_query THEN Gemini_sql_lines(lines, k + 1, FALSE, sql_lines)
             ELSE IF EndsWith(line, ";") THEN Append(sql_lines, line)
             ELSE Gemini_sql_lines(lines, k + 1, TRUE, Append(sql_lines, line))

\* GeminiNLtoSQL._clean_sql
Gemini_clean_sql(sql) ==
    LET unfenced  == Strip(Without(Without(sql, Fence \o "sql"), Fence))
        sql_lines == Gemini_sql_lines(Split(unfenced, "\n"), 1, FALSE, <<>>)
    IN  Strip(RStrip(Join(" ", sql_lines), {";"}))

\* GeminiNLtoSQL.parse_question, given what generate_content gave
Gemini_parse_question(question_, response_) ==
    IF response_.kind = "text"
    THEN LET sql == Gemini_clean_sql(Strip(response_.text))
         IN  IF sql = "" THEN Returns(<<>>, <<CouldNotGenerate>>)
             ELSE IF ~StartsWith(Upper(sql), "SELECT") THEN Returns(<<>>, <<OnlySelect>>)
             ELSE Returns(<<sql>>, <<"Generated SQL query for: " \o question_>>)
    ELSE IF response_.kind = "none"
    THEN Returns(<<>>, <<"Error generating SQL: " \o NoneHasNoStrip>>)
    ELSE Returns(<<>>, <<"Error generating SQL: " \o response_.text>>)

\* OpenAINLtoSQL._clean_sql, the loop of lines 220-227 from line k on
RECURSIVE OpenAI_sql_lines(_, _, _, _)
OpenAI_sql_lines(lines, k, in_query, sql_lines) ==
    IF k > Len(lines) THEN sql_lines
    ELSE LET line == Strip(lines[k])
             now_in_query == in_query \/ StartsWith(Upper(line), "SELECT")
         IN  IF ~now_in_query THEN OpenAI_sql_lines(lines, k + 1, FALSE, sql_lines)
             ELSE IF EndsWith(line, ";") THEN Append(sql_lines, line)
             ELSE OpenAI_sql_lines(lines, k + 1, TRUE, Append(sql_lines, line))

\* OpenAINLtoSQL._clean_sql
OpenAI_clean_sql(sql) ==
    LET unfenced  == Strip(Without(Without(sql, Fence \o "sql"), Fence))
        sql_lines == OpenAI_sql_lines(Split(unfenced, "\n"), 1, FALSE, <<>>)
    IN  Strip(RStrip(Join(" ", sql_lines), {";"}))

\* OpenAINLtoSQL.parse_question, given what chat.completions.create gave
OpenAI_parse_question(question_, response_) ==
    IF response_.kind = "text"
    THEN LET sql == OpenAI_clean_sql(Strip(response_.text))
         IN  IF sql = "" THEN Returns(<<>>, <<CouldNotGenerate>>)
             ELSE IF ~StartsWith(Upper(sql), "SELECT") THEN Returns(<<>>, <<OnlySelect>>)
             ELSE Returns(<<sql>>, <<"Generated SQL query for: " \o question_>>)
    ELSE IF response_.kind = "none"
    THEN Returns(<<>>, <<"Error generating SQL: " \o NoneHasNoStrip>>)
    ELSE Returns(<<>>, <<"Error generating SQL: " \o response_.text>>)

\* OllamaNLtoSQL._clean_sql, lines 146-149: the prefixes but the last
RECURSIVE Ollama_strip_prefixes(_, _)
Ollama_strip_prefixes(sql, prefixes) ==
    IF Len(prefixes) = 0 THEN sql
    ELSE Ollama_strip_prefixes(
             (IF StartsWith(sql, Head(prefixes))
              THEN Strip(SubSeq(sql, Len(Head(prefixes)) + 1, Len(sql)))
              ELSE sql),
             Tail(prefixes))

\* OllamaNLtoSQL._clean_sql, the loop of lines 154-163 from line k on
RECURSIVE Ollama_sql_lines(_, _, _)
Ollama_sql_lines(lines, k, sql_lines) ==
    IF k > Len(lines) THEN sql_lines
    ELSE LET line == Strip(lines[k])
         IN  IF line = "" \/ StartsWith(line, "--")
             THEN Ollama_sql_lines(lines, k + 1, sql_lines)
             ELSE IF StartsWith(Upper(line), "SELECT")
             THEN Ollama_sql_lines(lines, k + 1, <<line>>)
             ELSE IF Len(sql_lines) > 0
             THEN IF EndsWith(line, ";") THEN Append(sql_lines, line)
                  ELSE Ollama_sql_lines(lines, k + 1, Append(sql_lines, line))
             ELSE Ollama_sql_lines(lines, k + 1, sql_lines)

\* OllamaNLtoSQL._clean_sql
Ollama_clean_sql(sql) ==
    LET unfenced  == Without(Without(sql, Fence \o "sql"), Fence)
        bare      == Ollama_strip_prefixes(unfenced, <<"SQL:", "Query:", "Answer:">>)
        sql_lines == Ollama_sql_lines(Split(bare, "\n"), 1, <<>>)
        joined    == IF Len(sql_lines) > 0 THEN Join(" ", sql_lines)
                     ELSE Split(bare, "\n")[1]
    IN  Strip(RStrip(joined, {";"}))

\* OllamaNLtoSQL.parse_question, given what requests.post gave; the model
\* is the default of line 11
Ollama_parse_question(question_, response_) ==
    IF response_.kind = "status"
    THEN Returns(<<>>, <<"Ollama API error: " \o NatToStr(response_.status)>>)
    ELSE IF response_.kind = "timeout"
    THEN Returns(<<>>, <<"Ollama request timed out. The model might be slow or not loaded.">>)
    ELSE IF response_.kind = "connection"
    THEN Returns(<<>>, <<"Cannot connect to Ollama. Make sure Ollama is running.">>)
    ELSE IF response_.kind = "raise"
    THEN Returns(<<>>, <<"Error generating SQL: " \o response_.text>>)
    ELSE LET sql == Ollama_clean_sql(Strip(IF response_.kind = "none" THEN ""
                                           ELSE response_.text))
         IN  IF sql = "" THEN Returns(<<>>, <<CouldNotGenerate>>)
             ELSE IF ~StartsWith(Upper(sql), "SELECT") THEN Returns(<<>>, <<OnlySelect>>)
             ELSE Returns(<<sql>>, <<"Generated SQL using Ollama (llama3.1)">>)

\* Faulty variant: the text of the model is returned without the check of
\* its first word.
Vanna_parse_question_unvalidated(question_, response_) ==
    IF response_.kind = "raise"
    THEN Returns(<<>>, <<"Error generating SQL: " \o response_.text>>)
    ELSE IF response_.kind = "none" \/ response_.text = ""
    THEN Returns(<<>>, <<CouldNotGenerate>>)
    ELSE Returns(<<Strip(response_.text)>>,
                 <<"Generated SQL query using Vanna AI for: " \o question_>>)

\* VannaNLtoSQL.parse_question, given what generate_sql gave
Vanna_parse_question(question_, response_) ==
    IF response_.kind = "raise"
    THEN Returns(<<>>, <<"Error generating SQL: " \o response_.text>>)
    ELSE IF response_.kind = "none" \/ response_.text = ""
    THEN Returns(<<>>, <<CouldNotGenerate>>)
    ELSE LET stripped == Strip(response_.text)
             sql == IF EndsWith(stripped, ";")
                    THEN (IF Len(stripped) = 1 THEN ""
                          ELSE SubSeq(stripped, 1, Len(stripped) - 1))
                    ELSE stripped
         IN  IF ~StartsWith(Upper(sql), "SELECT") THEN Returns(<<>>, <<OnlySelect>>)
             ELSE Returns(<<sql>>, <<"Generated SQL query using Vanna AI for: " \o question_>>)

Translators == {"gemini", "openai", "ollama", "vanna"}

\* the most lines of a text of the model
MaxLines == 2

\* lines a model writes: statements, a second statement on the line of the
\* first, the parts of a statement, fences, a label, a comment, prose
ResponseLines ==
    <<"SELECT 1", "SELECT 2;", "  select 3", "FROM t;", "DROP TABLE users;",
      "SELECT 4; DROP TABLE users", Fence \o "sql", Fence, "SQL: SELECT 5", "-- note",
      "Here is the query:">>

\* the texts of n lines
RECURSIVE TextsOf(_)
TextsOf(n) ==
    IF n = 1 THEN RangeOf(ResponseLines)
    ELSE {t \o "\n" \o l : t \in TextsOf(n - 1), l \in RangeOf(ResponseLines)}

ResponseTexts == {""} \cup UNION {TextsOf(n) : n \in 1..MaxLines}

\* what a model service can give: any text, nothing, or an exception
Responses ==
    {Answered("text", x, 200) : x \in ResponseTexts}
        \cup {Answered("none", "", 200)}
        \cup {Answered("raise", m, 0) : m \in {"", "quota exceeded"}}

\* what requests.post can give besides: another status, or its exceptions
OllamaResponses ==
    Responses \cup {Answered("status", "", 500), Answered("timeout", "", 0),
                    Answered("connection", "", 0)}

LLMQuestions == {"How many agents", "Remove all users"}

\* GeminiNLtoSQL.parse_question as a whole (lines 155-201)
GeminiParseQuestion(t) ==
    /\ pc[t] = "called"
    /\ self[t] = "gemini"
    /\ \E r \in Responses :
           /\ response' = [response EXCEPT ![t] = r]
           /\ Finish(t, Gemini_parse_question(question[t], r))
    /\ UNCHANGED <<tables, languages, patterns, now, self, question, suggestions,
                   executed, query_history>>

\* OpenAINLtoSQL.parse_question as a whole (lines 154-205)
OpenAIParseQuestion(t) ==
    /\ pc[t] = "called"
    /\ self[t] = "openai"
    /\ \E r \in Responses :
           /\ response' = [response EXCEPT ![t] = r]
           /\ Finish(t, OpenAI_parse_question(question[t], r))
    /\ UNCHANGED <<tables, languages, patterns, now, self, question, suggestions,
                   executed, query_history>>

\* OllamaNLtoSQL.parse_question as a whole (lines 71-138)
OllamaParseQuestion(t) ==
    /\ pc[t] = "called"
    /\ self[t] = "ollama"
    /\ \E r \in OllamaResponses :
           /\ response' = [response EXCEPT ![t] = r]
           /\ Finish(t, Ollama_parse_question(question[t], r))
    /\ UNCHANGED <<tables, languages, patterns, now, self, question, suggestions,
                   executed, query_history>>

\* VannaNLtoSQL.parse_question as a whole (lines 219-249)
VannaParseQuestion(t) ==
    /\ pc[t] = "called"
    /\ self[t] = "vanna"
    /\ \E r \in Responses :
           /\ response' = [response EXCEPT ![t] = r]
           /\ Finish(t, Vanna_parse_question(question[t], r))
    /\ UNCHANGED <<tables, languages, patterns, now, self, question, suggestions,
                   executed, query_history>>

\* one caller of the four translators, whole calls, every response
NextLLM ==
    \/ \E i \in Translators, q \in LLMQuestions : Call("c1", i, q)
    \/ GeminiParseQuestion("c1")
    \/ OpenAIParseQuestion("c1")
    \/ OllamaParseQuestion("c1")
    \/ VannaParseQuestion("c1")
    \/ Discard("c1")

SpecLLM == Init /\ [][NextLLM]_vars

(***************************************************************************)
(* The dashboard (app.py) started with an API key: the branch of line 317. *)
(***************************************************************************)
\* the most statements the dashboard passes to the database
MaxQueries == 2

\* what vn.generate_sql can give the dashboard
GeneratedTexts ==
    {"SELECT 1", "select name from agents", "SELECT 4; DROP TABLE users",
     "DROP TABLE users", "DELETE FROM agents", "UPDATE users SET role = 'admin'",
     "I cannot answer that"}

Generated ==
    {Answered("text", x, 200) : x \in GeneratedTexts}
        \cup {Answered("raise", "quota exceeded", 0)}

\* execute_sql (lines 20-28) hands the statement to the database as it is
execute_sql(sql_query) == Append(executed, sql_query)

\* the handler of "Run Query" (lines 341-373) for a question q, given what
\* vn.generate_sql gave and whether the database ran the statement
RunQuery(q, r, ran) ==
    /\ q # ""
    /\ Len(executed) < MaxQueries
    /\ IF r.kind = "raise"
       THEN UNCHANGED <<executed, query_history>>
       ELSE /\ executed' = execute_sql(r.text)
            /\ query_history' =
                   IF ran THEN Append(query_history, [question |-> q, sql |-> r.text])
                   ELSE query_history
    /\ UNCHANGED <<tables, languages, patterns, now, self, question, norm, idx,
                   pc, result, returned_at, suggestions, response>>

NextDashboard ==
    \E q \in LLMQuestions, r \in Generated, ran \in BOOLEAN : RunQuery(q, r, ran)

SpecDashboard == Init /\ [][NextDashboard]_vars

(***************************************************************************)
(* Properties.                                                             *)
(***************************************************************************)
Done(t) == pc[t] = "done"

\* the SQL text caller t got ("" when it got none)
SqlOf(t) == IF result[t].sql = <<>> THEN "" ELSE result[t].sql[1]

\* the match of rule k on the normalized question q, and what its handler gives
MatchOf(i, k, q)   == Search(patterns[i][k].re, q)
HandlerOut(i, k, q) == CallHandler(patterns[i][k].handler, i, MatchOf(i, k, q), q)

\* the rules whose recognizer matches q
Matching(i, q) == {k \in 1..Len(patterns[i]) : MatchOf(i, k, q).found}

\* the rules whose recognizer matches q and whose handler returns
Returning(i, q) == {k \in Matching(i, q) : ~HandlerOut(i, k, q).raised}

\* C1: when some rule matches and its handler returns, the result is the
\* output of the first such rule in declaration order, and of nothing else.
C1_FirstMatchWins ==
    \A t \in Callers :
        Done(t) =>
            LET q  == Normalized(question[t])
                ks == Returning(self[t], q)
            IN  ks # {} => result[t] = HandlerOut(self[t], Min(ks), q)

\* a question that two rules match, answered by the first of them
C1_Witness ==
    /\ Done("c1")
    /\ LET q  == Normalized(question["c1"])
           ks == Returning("a", q)
       IN  /\ Cardinality(ks) >= 2
           /\ result["c1"] = HandlerOut("a", Min(ks), q)
           /\ result["c1"] # HandlerOut("a", CHOOSE k \in ks : k # Min(ks), q)

\* the first `n` characters of s, upper-cased
UpperPrefix(s, n) == Upper(SubSeq(s, 1, IF Len(s) < n THEN Len(s) ELSE n))

\* C2: every non-empty SQL string returned begins with SELECT (whatever the
\* case, after trimming) and contains no semicolon.
C2_SingleSelect ==
    \A t \in Callers :
        (Done(t) /\ SqlOf(t) # "") =>
            /\ UpperPrefix(Strip(SqlOf(t)), 6) = "SELECT"
            /\ ~Contains(SqlOf(t), ";")

\* SQL returned for a question that itself holds a second statement
C2_Witness ==
    /\ Done("c1")
    /\ Contains(question["c1"], "; DELETE FROM")
    /\ SqlOf("c1") # ""

\* the maximal runs of word characters of s, upper-cased
TokensOf(s) ==
    {Upper(SubSeq(s, b, RunEnd("w", s, b) - 1)) :
        b \in {p \in 1..Len(s) : /\ Ch(s, p) \in WordChars
                                 /\ (p = 1 \/ Ch(s, p - 1) \notin WordChars)}}

WriteKeywords == {"INSERT", "UPDATE", "DELETE", "DROP", "ALTER"}

\* C3: no SQL string returned holds INSERT, UPDATE, DELETE, DROP or ALTER as a
\* whole token, whatever the question holds.
C3_NoWriteKeyword ==
    \A t \in Callers :
        Done(t) => TokensOf(SqlOf(t)) \cap WriteKeywords = {}

\* SQL returned for a question that holds such a word where a rule captures it
C3_Witness ==
    /\ Done("c1")
    /\ TokensOf(question["c1"]) \cap WriteKeywords # {}
    /\ Contains(SqlOf("c1"), "a.language = 'dr'")

\* C4: the result is (sql, explanation), both non-empty strings, or
\* (nothing, reason) with a non-empty reason.
C4_ResultShape ==
    \A t \in Callers :
        Done(t) =>
            /\ ~result[t].raised
            /\ result[t].explanation # <<>>
            /\ result[t].explanation[1] # ""
            /\ result[t].sql # <<>> => result[t].sql[1] # ""

\* the rule of the 'how many / count ENTITY' shape
CountRule(i) == CHOOSE k \in 1..Len(patterns[i]) : patterns[i][k].handler = "_handle_count"

\* the count rule is reached with an entity that names no table
CountUnresolved(i, q) ==
    /\ CountRule(i) \in Matching(i, q)
    /\ \A k \in Returning(i, q) : k >= CountRule(i)
    /\ HandlerOut(i, CountRule(i), q).sql = <<>>

\* C5: when the count recognizer matches but its entity names no table, the
\* rule counts as not matching: the result is that of the later rules and of
\* the keyword fallback.
C5_CountFallsThrough ==
    \A t \in Callers :
        LET q == Normalized(question[t])
        IN  (Done(t) /\ CountUnresolved(self[t], q)) =>
                result[t] = TryRulesFrom(self[t], CountRule(self[t]) + 1, q)

CouldNotUnderstand ==
    "Could not understand the question. Try using query templates or be more specific."

\* some table name occurs in q, with underscores or with spaces
NamesTable(i, q) ==
    \E k \in 1..Len(tables[i]) :
        \/ Contains(q, tables[i][k].name)
        \/ Contains(q, Replace(tables[i][k].name, "_", " "))

\* C6: a question that no rule matches and that names no table gives
\* (nothing, the 'could not understand' reason).
C6_NoMatchReason ==
    \A t \in Callers :
        LET q == Normalized(question[t])
        IN  (Done(t) /\ Matching(self[t], q) = {} /\ ~NamesTable(self[t], q)) =>
                /\ ~result[t].raised
                /\ result[t].sql = <<>>
                /\ result[t].explanation = <<CouldNotUnderstand>>

\* a whitespace-only question got that answer
C6_Witness ==
    /\ Done("c1")
    /\ question["c1"] # ""
    /\ Normalized(question["c1"]) = ""
    /\ result["c1"].explanation = <<CouldNotUnderstand>>

\* C7: parse_question never raises; an exception of a handler does not reach
\* the caller.
C7_NeverRaises ==
    \A t \in Callers : Done(t) => ~result[t].raised

\* a call returned although the handler of a matching rule had raised
C7_Witness ==
    /\ Done("c1")
    /\ ~result["c1"].raised
    /\ \E k \in Matching("a", Normalized(question["c1"])) :
           HandlerOut("a", k, Normalized(question["c1"])).raised

\* C9: the catalog, the lexicon and the rule list of every instance stay as
\* constructed.
C9_InstanceUnchanged ==
    /\ tables    = [i \in Instances |-> init_tables]
    /\ languages = [i \in Instances |-> init_languages]
    /\ patterns  = [i \in Instances |-> _build_patterns]

\* after a call of parse_question that used the catalog
C9_Witness ==
    /\ Done("c1")
    /\ Contains(SqlOf("c1"), "COUNT(*) as count FROM users")
    /\ C9_InstanceUnchanged

\* C8: two calls with the same question, on the same or on different
\* instances and at different times, return the same sql and explanation; a
\* time window is written relative to 'now'.
C8_Deterministic ==
    \A t, u \in Callers :
        (Done(t) /\ Done(u) /\ question[t] = question[u]) =>
            /\ result[t] = result[u]
            /\ Contains(SqlOf(t), "created_at >=") =>
                   Contains(SqlOf(t), "created_at >= datetime('now', '-")

\* the same time-windowed question answered at two times by two instances
C8_Witness ==
    /\ Done("c1") /\ Done("c2")
    /\ question["c1"] = question["c2"]
    /\ self["c1"] # self["c2"]
    /\ returned_at["c1"] # returned_at["c2"]
    /\ Contains(SqlOf("c1"), "created_at >= datetime('now', '-24 hours')")

\* C10: however calls on one shared instance interleave, each returns what it
\* returns when run alone.
C10_InterleavingFree ==
    \A t \in Callers :
        Done(t) => result[t] = parse_question(self[t], question[t])

\* a call returned SQL while a call with another question was in its loop on
\* the same instance
C10_Witness ==
    /\ Done("c1")
    /\ pc["c2"] = "loop" /\ idx["c2"] > 1
    /\ self["c1"] = self["c2"]
    /\ question["c1"] # question["c2"]
    /\ SqlOf("c1") # ""

(***************************************************************************)
(* The rules one by one.                                                   *)
(***************************************************************************)
\* the rule that calls handler h
RuleOf(i, h) == CHOOSE k \in 1..Len(patterns[i]) : patterns[i][k].handler = h


TopErrorsRule(i)     == RuleOf(i, "_handle_top_errors")
GenericErrorsRule(i) == RuleOf(i, "_handle_errors_timeframe")

\* q is matched by the 'top N errors' rule and by the 'show errors' rule
BothErrorRulesMatch(i, q) ==
    {TopErrorsRule(i), GenericErrorsRule(i)} \subseteq Matching(i, q)

\* the grouped query with a LIMIT, and the select-all-errors query
TopErrorsQuery(sql) ==
    /\ StartsWith(sql, "SELECT code, message, source, COUNT(*)")
    /\ Contains(sql, "GROUP BY code, message, source")
    /\ Contains(sql, "LIMIT ")
GenericErrorsQuery(sql) ==
    /\ StartsWith(sql, "SELECT * ")
    /\ Contains(sql, "FROM errors")

TimeRules(i) ==
    {RuleOf(i, h) : h \in {"_handle_top_errors", "_handle_errors_timeframe",
                           "_handle_failed_tests"}}

\* the value of a short string of decimal digits
RECURSIVE StrToNat(_)
StrToNat(s) ==
    IF s = "" THEN 0
    ELSE 10 * StrToNat(SubSeq(s, 1, Len(s) - 1)) + DigitVal(Ch(s, Len(s)))

DaysPer(u)  == CASE u = "hour" -> 1 [] u = "day" -> 1 [] u = "week" -> 7 [] u = "month" -> 30
UnitName(u) == IF u = "hour" THEN "hours" ELSE "days"

\* sql holds the filter 'at or after now minus v u'; a duration too long to be
\* written out here is only looked at for its unit
EmbedsDuration(sql, v, u) ==
    IF Len(v) <= 9
    THEN Contains(sql, "created_at >= datetime('now', '-"
                           \o NatToStr(StrToNat(v) * DaysPer(u)) \o " "
                           \o UnitName(u) \o "')")
    ELSE Contains(sql, "created_at >= datetime('now', '-")
         /\ Contains(sql, " " \o UnitName(u) \o "')")

\* the question ends with a unit word in the singular
EndsWithUnit(q) == \E u \in UnitWords : EndsWith(q, " " \o u)

\* the first rule that matches q (0 when none does)
FirstMatching(i, q) ==
    LET ms == Matching(i, q) IN IF ms = {} THEN 0 ELSE Min(ms)

\* C12 as stated: for every captured duration V and unit U the filter embeds
\* V hours, V days, 7*V days or 30*V days, and the plural unit gives the same.
C12_UnitsAlways ==
    \A t \in Callers :
        Done(t) =>
            LET i == self[t]
                q == Normalized(question[t])
                k == FirstMatching(i, q)
                m == MatchOf(i, k, q)
            IN  k \in TimeRules(i) =>
                    EmbedsDuration(SqlOf(t), m.groups[Len(m.groups) - 1],
                                   m.groups[Len(m.groups)])

\* C12 amended: the same, for every captured duration that the handler can
\* convert (V and the normalized duration within the int/str conversion limit).
C12_UnitsNormalized ==
    \A t \in Callers :
        Done(t) =>
            LET i == self[t]
                q == Normalized(question[t])
                k == FirstMatching(i, q)
                m == MatchOf(i, k, q)
            IN  (k \in TimeRules(i) /\ ~CallHandler(patterns[i][k].handler, i, m, q).raised) =>
                    /\ EmbedsDuration(SqlOf(t), m.groups[Len(m.groups) - 1],
                                      m.groups[Len(m.groups)])
                    /\ EndsWithUnit(q) =>
                           parse_question(i, question[t] \o "s") = result[t]

\* '2 week' answered with 14 days
C12_Witness ==
    /\ Done("c1")
    /\ EndsWith(question["c1"], "last 2 week")
    /\ Contains(SqlOf("c1"), "created_at >= datetime('now', '-14 days')")

LanguageRule(i) == RuleOf(i, "_handle_agents_by_language")

\* the first (at most) two characters of s
FirstTwo(s) == SubSeq(s, 1, IF Len(s) < 2 THEN Len(s) ELSE 2)

\* the language filter of sql has value c
FiltersLanguage(sql, c) == Contains(sql, "WHERE a.language = '" \o c \o "'\n")

\* the code the lexicon gives a lowercase name, or its first two characters
CodeOf(i, name) ==
    IF name \in DOMAIN languages[i] THEN languages[i][name] ELSE FirstTwo(name)

\* C13: when the language rule answers, the filter value is the lexicon's code
\* of LANG if it has one (Gujarati: gu) and else the first two lowercase
\* characters of LANG (Klingon: kl), whatever the casing of LANG.
C13_LanguageCode ==
    \A t \in Callers :
        Done(t) =>
            LET i == self[t]
                q == Normalized(question[t])
                k == FirstMatching(i, q)
            IN  k = LanguageRule(i) =>
                    /\ FiltersLanguage(SqlOf(t), CodeOf(i, MatchOf(i, k, q).groups[1]))
                    \* LANG as the user wrote it
                    /\ \A LANG \in LanguageNames :
                           Contains(question[t], " " \o LANG \o " language") =>
                               /\ FiltersLanguage(SqlOf(t), CodeOf(i, Lower(LANG)))
                               /\ Upper(LANG) = "GUJARATI" => FiltersLanguage(SqlOf(t), "gu")
                               /\ Upper(LANG) = "KLINGON" => FiltersLanguage(SqlOf(t), "kl")
                    /\ \A name \in DOMAIN languages[i] :
                           /\ Len(languages[i][name]) = 2
                           /\ \A j \in 1..2 : Ch(languages[i][name], j) \in LowerChars

\* a name of the lexicon, not in lower case, whose code is not its first two
\* letters
C13_Witness ==
    /\ Done("c1")
    /\ Contains(question["c1"], "agents using Punjabi language")
    /\ FiltersLanguage(SqlOf("c1"), "pa")

\* C14: a free-text capture reaches the SQL only resolved: the language filter
\* holds a code of the lexicon, the counted table is a table of the catalog.
C14_CapturesResolved ==
    \A t \in Callers :
        Done(t) =>
            LET i == self[t]
                k == FirstMatching(i, Normalized(question[t]))
            IN  /\ k = LanguageRule(i) =>
                       \E name \in DOMAIN languages[i] :
                           FiltersLanguage(SqlOf(t), languages[i][name])
                /\ (k = CountRule(i) /\ SqlOf(t) # "") =>
                       \E j \in 1..Len(tables[i]) :
                           SqlOf(t) = "SELECT COUNT(*) as count FROM " \o tables[i][j].name

\* table k of the catalog is named in q, with underscores or with spaces
Names(i, q, k) ==
    \/ Contains(q, tables[i][k].name)
    \/ Contains(q, Replace(tables[i][k].name, "_", " "))

\* no rule produces a result for q: none matches, or every handler raises
NoRuleAnswers(i, q) ==
    \A k \in Matching(i, q) : HandlerOut(i, k, q).raised

\* C15: when no rule produces a result and the question names a table, the sql
\* is 'SELECT * FROM T LIMIT 100' for the first table T of the catalog that the
\* question names, wherever in the question it stands.
C15_FallbackCatalogOrder ==
    \A t \in Callers :
        Done(t) =>
            LET i == self[t]
                q == Normalized(question[t])
            IN  NoRuleAnswers(i, q) =>
                    \A k \in 1..Len(tables[i]) :
                        (Names(i, q, k) /\ \A j \in 1..(k - 1) : ~Names(i, q, j)) =>
                            /\ SqlOf(t) = "SELECT * FROM " \o tables[i][k].name \o " LIMIT 100"
                            /\ result[t].explanation =
                                   <<"Showing data from " \o tables[i][k].name \o " table">>

\* 'agents' stands first in the question, 'users' first in the catalog
C15_Witness ==
    /\ Done("c1")
    /\ question["c1"] = "agents and users"
    /\ SqlOf("c1") = "SELECT * FROM users LIMIT 100"

\* the tables the entity e resolves to: those whose name holds e
ResolvesTo(i, e) == {k \in 1..Len(tables[i]) : Contains(tables[i][k].name, e)}

\* C16 as stated: a count question whose entity resolves to table T gets
\* exactly 'SELECT COUNT(*) AS count FROM T'.
C16_CountTextUpperAs ==
    \A t \in Callers :
        Done(t) =>
            LET i == self[t]
                q == Normalized(question[t])
                k == FirstMatching(i, q)
                e == MatchOf(i, k, q).groups[1]
            IN  (k = CountRule(i) /\ ResolvesTo(i, e) # {}) =>
                    /\ SqlOf(t) = "SELECT COUNT(*) AS count FROM "
                                      \o tables[i][Min(ResolvesTo(i, e))].name
                    /\ question[t] = "How many agents" =>
                           SqlOf(t) = "SELECT COUNT(*) AS count FROM agents"

\* C16 amended: the text is exactly 'SELECT COUNT(*) as count FROM T', with
\* 'as' in lower case, T the first table of the catalog whose name holds E.
C16_CountText ==
    \A t \in Callers :
        Done(t) =>
            LET i == self[t]
                q == Normalized(question[t])
                k == FirstMatching(i, q)
                e == MatchOf(i, k, q).groups[1]
            IN  (k = CountRule(i) /\ ResolvesTo(i, e) # {}) =>
                    /\ SqlOf(t) = "SELECT COUNT(*) as count FROM "
                                      \o tables[i][Min(ResolvesTo(i, e))].name
                    /\ question[t] = "How many agents" =>
                           SqlOf(t) = "SELECT COUNT(*) as count FROM agents"

\* an entity held by several table names, none of which it begins
C16_Witness ==
    /\ Done("c1")
    /\ question["c1"] = "How many a"
    /\ SqlOf("c1") = "SELECT COUNT(*) as count FROM workspaces"

\* the position at which sub first occurs in s (0 when it does not)
Find(s, sub) ==
    LET ps == {p \in 1..(Len(s) - Len(sub) + 1) : SubSeq(s, p, p + Len(sub) - 1) = sub}
    IN  IF ps = {} THEN 0 ELSE Min(ps)

\* sql is the top-N-errors query for limit n, duration v and unit u: from
\* errors, filtered, grouped, ordered by the count descending, limited, in
\* that order
TopErrorsOf(sql, n, v, u) ==
    LET from  == Find(sql, "FROM errors")
        where == Find(sql, "WHERE created_at >= ")
        group == Find(sql, "GROUP BY code, message, source")
        order == Find(sql, "ORDER BY error_count DESC")
        limit == Find(sql, "LIMIT " \o n)
    IN  /\ StartsWith(sql, "SELECT code, message, source, COUNT(*) as error_count")
        /\ 0 < from /\ from < where /\ where < group /\ group < order /\ order < limit
        /\ EmbedsDuration(sql, v, u)
        /\ EndsWith(sql, "LIMIT " \o n)

\* C17 as stated: every question of the shape 'top N errors ... last V U' gets
\* the top-N-errors query with the normalized duration and LIMIT N.
C17_TopErrorsAlways ==
    \A t \in Callers :
        Done(t) =>
            LET i == self[t]
                q == Normalized(question[t])
                m == MatchOf(i, TopErrorsRule(i), q)
            IN  m.found =>
                    /\ TopErrorsOf(SqlOf(t), m.groups[1], m.groups[2], m.groups[3])
                    /\ question[t] = "Top 5 errors for the last 24 hours" =>
                           /\ Contains(SqlOf(t), "datetime('now', '-24 hours')")
                           /\ EndsWith(SqlOf(t), "LIMIT 5")

\* C17 amended: the same for every such question whose duration the handler
\* can convert (V and the normalized duration within the int/str limit).
C17_TopErrorsQuery ==
    \A t \in Callers :
        Done(t) =>
            LET i == self[t]
                q == Normalized(question[t])
                m == MatchOf(i, TopErrorsRule(i), q)
            IN  (m.found /\ ~_handle_top_errors(i, m, q).raised) =>
                    /\ TopErrorsOf(SqlOf(t), m.groups[1], m.groups[2], m.groups[3])
                    /\ question[t] = "Top 5 errors for the last 24 hours" =>
                           /\ Contains(SqlOf(t), "datetime('now', '-24 hours')")
                           /\ EndsWith(SqlOf(t), "LIMIT 5")

\* the example of the claim, and a limit unlike its duration
C17_Witness ==
    /\ Done("c1")
    /\ question["c1"] = "Top 10 errors for the last 2 months"
    /\ TopErrorsOf(SqlOf("c1"), "10", "2", "month")
    /\ Contains(SqlOf("c1"), "datetime('now', '-60 days')")

\* p and q differ only in letter case and in whitespace at the ends
SameButCaseAndMargin(p, q) == Upper(Strip(p)) = Upper(Strip(q))

\* C18: two questions that differ only in letter case and in leading or
\* trailing whitespace get the same sql and explanation.
C18_CaseAndMarginBlind ==
    \A t, u \in Callers :
        (Done(t) /\ Done(u) /\ SameButCaseAndMargin(question[t], question[u])) =>
            result[t] = result[u]

\* a language question in capitals and the same in lower case with spaces
\* around, both answered with SQL
C18_Witness ==
    /\ Done("c1") /\ Done("c2")
    /\ question["c1"] = "LIST ALL AGENTS USING GUJARATI LANGUAGE"
    /\ question["c2"] = "  List all agents using Gujarati language \t"
    /\ FiltersLanguage(SqlOf("c1"), "gu")
    /\ result["c1"] = result["c2"]

\* a general listing rule and the specific grouping rule it can hide
ListingAndGrouping == {
    <<"_handle_all_agents", "_handle_agent_runs_status">>,
    <<"_handle_all_workspaces", "_handle_workspaces_by_plan">> }

\* C19: a question matched by a general listing rule and by the specific
\* grouping rule gets the grouping query of the specific rule.
C19_SpecificFirst ==
    \A t \in Callers :
        Done(t) =>
            LET i  == self[t]
                q  == Normalized(question[t])
                ms == Matching(i, q)
            IN  \A lg \in ListingAndGrouping :
                    ({RuleOf(i, lg[1]), RuleOf(i, lg[2])} \subseteq ms) =>
                        /\ result[t] = HandlerOut(i, RuleOf(i, lg[2]), q)
                        /\ Contains(SqlOf(t), "GROUP BY")

\* C20: every question that holds 'integrations by status' gets the query that
\* groups integrations by (type, status) with a count, ordered by type, status.
C20_IntegrationsByStatus ==
    \A t \in Callers :
        (Done(t) /\ Contains(Normalized(question[t]), "integrations by status")) =>
            /\ StartsWith(SqlOf(t), "SELECT type, status, COUNT(*) as count")
            /\ Contains(SqlOf(t), "FROM integrations")
            /\ Contains(SqlOf(t), "GROUP BY type, status")
            /\ EndsWith(SqlOf(t), "ORDER BY type, status")

\* 'failed test runs [for|in|from] [the] last V U', the shape of the
\* failed-tests rule without its leading verb
FailedTestsShape ==
    <<Lit("failed"), SP, Lit("test"), SP0, Lit("run"), OptLit("s"), SP>> \o InLast

\* sql is the failed-test-runs query for duration v and unit u
FailedTestsOf(sql, v, u) ==
    /\ StartsWith(sql, "SELECT tr.*, a.name as agent_name")
    /\ Contains(sql, "FROM test_runs tr")
    /\ Contains(sql, "JOIN agents a ON tr.agent_id = a.id")
    /\ Contains(sql, "WHERE tr.result = 'fail'")
    /\ Contains(sql, "AND tr.created_at >= ")
    /\ EmbedsDuration(sql, v, u)
    /\ EndsWith(sql, "ORDER BY tr.created_at DESC")

\* C21: every question that holds 'failed test runs ... last V U', with or
\* without a leading verb, gets the failed-test-runs query: test_runs joined to
\* agents, result = 'fail', created_at at or after now minus the normalized
\* duration, newest first.
C21_FailedTestsAnyVerb ==
    \A t \in Callers :
        Done(t) =>
            LET m == Search(FailedTestsShape, Normalized(question[t]))
            IN  m.found => FailedTestsOf(SqlOf(t), m.groups[1], m.groups[2])

\* how often sub occurs in s
Occurrences(s, sub) ==
    Cardinality({p \in 1..(Len(s) - Len(sub) + 1) : SubSeq(s, p, p + Len(sub) - 1) = sub})

\* the rule that answered caller t's question (0 when the fallback did)
AnsweringRule(t) ==
    LET i  == self[t]
        q  == Normalized(question[t])
        ks == {k \in Matching(i, q) :
                  ~CallHandler(patterns[i][k].handler, i, MatchOf(i, k, q), q).raised}
    IN  IF ks = {} THEN 0 ELSE Min(ks)

\* C22: a time-windowed query holds exactly one time condition, the lower bound
\* "created_at >= datetime('now', '-...')"; no query holds another comparison
\* sign or a datetime not anchored to 'now'.
C22_RelativeLowerBound ==
    \A t \in Callers :
        (Done(t) /\ SqlOf(t) # "") =>
            LET sql    == SqlOf(t)
                bounds == Occurrences(sql, "created_at >= datetime('now', '-")
            IN  /\ AnsweringRule(t) \in TimeRules(self[t]) => bounds = 1
                /\ Occurrences(sql, "datetime(") = bounds
                /\ Occurrences(sql, ">") = bounds
                /\ Occurrences(sql, "<") = 0
                /\ bounds <= 1

\* a failed-test-runs query, whose one bound is on tr.created_at and counts
\* back from now
C22_Witness ==
    /\ Done("c1")
    /\ AnsweringRule("c1") = RuleOf("a", "_handle_failed_tests")
    /\ Occurrences(SqlOf("c1"), "tr.created_at >= datetime('now', '-7 days')") = 1

\* the words that follow the keyword kw (FROM, JOIN) in sql
WordsAfter(sql, kw) ==
    {SubSeq(sql, p + Len(kw) + 1, RunEnd("w", sql, p + Len(kw) + 1) - 1) :
        p \in {p \in 1..(Len(sql) - Len(kw)) :
                  /\ SubSeq(sql, p, p + Len(kw)) = kw \o " "
                  /\ (p = 1 \/ Ch(sql, p - 1) \in Whitespace)}}

TablesIn(sql) == WordsAfter(sql, "FROM") \cup WordsAfter(sql, "JOIN")

CatalogKeys(i) == {tables[i][k].name : k \in 1..Len(tables[i])}

\* C23: every table named after FROM or JOIN in a returned SQL is a key of the
\* catalog, and every returned SQL names a table.
C23_TablesInCatalog ==
    \A t \in Callers :
        (Done(t) /\ SqlOf(t) # "") =>
            /\ TablesIn(SqlOf(t)) \subseteq CatalogKeys(self[t])
            /\ TablesIn(SqlOf(t)) # {}
            /\ Occurrences(SqlOf(t), "FROM") + Occurrences(SqlOf(t), "JOIN")
                   = Occurrences(SqlOf(t), "FROM ") + Occurrences(SqlOf(t), "JOIN ")

\* a join of two tables of the catalog
C23_Witness ==
    /\ Done("c1")
    /\ question["c1"] = "Billing by workspace"
    /\ TablesIn(SqlOf("c1")) = {"billing_usage", "workspaces"}

\* C24: when the count rule answers and its entity is exactly the name of a
\* table of the catalog, that table is the one counted.
C24_ExactNameCounted ==
    \A t \in Callers :
        Done(t) =>
            LET i == self[t]
                q == Normalized(question[t])
                k == FirstMatching(i, q)
                e == MatchOf(i, k, q).groups[1]
            IN  (k = CountRule(i) /\ e \in CatalogKeys(i)) =>
                    /\ SqlOf(t) = "SELECT COUNT(*) as count FROM " \o e
                    /\ TablesIn(SqlOf(t)) = {e}

\* a table whose name begins like the name of an earlier table
C24_Witness ==
    /\ Done("c1")
    /\ question["c1"] = "count integration_sync_logs"
    /\ TablesIn(SqlOf("c1")) = {"integration_sync_logs"}

\* C25: every question of get_suggestions is answered by a rule, not by the
\* keyword fallback and not with a no-match.
C25_SuggestionsHitRules ==
    \A t \in Callers :
        (Done(t) /\ question[t] \in RangeOf(get_suggestions)) =>
            /\ AnsweringRule(t) # 0
            /\ SqlOf(t) # ""
            /\ ~StartsWith(SqlOf(t), "SELECT * FROM ")

(***************************************************************************)
(* The translators that ask a language model, and the dashboard.           *)
(***************************************************************************)
\* caller t has the answer of one of the translators that ask a model
LLMDone(t) == Done(t) /\ self[t] \in Translators

\* the model service failed: an exception, or a status other than 200
ServiceFailed(r) == r.kind \in {"raise", "timeout", "connection", "status"}

\* nothing, and a reason that is not empty
NothingAndReason(r) ==
    /\ r.sql = <<>>
    /\ r.explanation # <<>>
    /\ r.explanation[1] # ""

\* C26: parse_question of Gemini, OpenAI, Ollama and Vanna never raises;
\* whatever the model service gave, the call returns either SQL that begins
\* with SELECT in any letter case, or nothing and a non-empty reason; an
\* exception or an error status of the service gives nothing and a reason.
C26_LLMContract ==
    \A t \in Callers :
        LLMDone(t) =>
            /\ ~result[t].raised
            /\ \/ /\ result[t].sql # <<>>
                  /\ StartsWith(Upper(SqlOf(t)), "SELECT")
               \/ NothingAndReason(result[t])
            /\ ServiceFailed(response[t]) => NothingAndReason(result[t])

\* a text of the model that is not a SELECT statement was turned down
C26_Witness ==
    /\ LLMDone("c1")
    /\ self["c1"] = "vanna"
    /\ response["c1"] = Answered("text", "DROP TABLE users;", 200)
    /\ result["c1"] = Returns(<<>>, <<OnlySelect>>)

\* a second statement: text after a semicolon that is more than whitespace
\* and semicolons
SecondStatement(sql) ==
    \E p \in 1..Len(sql), r \in 1..Len(sql) :
        /\ p < r
        /\ Ch(sql, p) = ";"
        /\ Ch(sql, r) \notin Whitespace \cup {";"}

\* C27: no SQL that parse_question of Gemini, OpenAI, Ollama or Vanna
\* returns holds a second statement after a semicolon, whatever the text of
\* the model was, two statements on one line included.
C27_SingleStatement ==
    \A t \in Callers :
        (LLMDone(t) /\ result[t].sql # <<>>) => ~SecondStatement(SqlOf(t))

\* the lines of a text that start with SELECT in any letter case
SelectLines(text) ==
    LET lines == Split(text, "\n")
    IN  {k \in 1..Len(lines) : StartsWith(Upper(Strip(lines[k])), "SELECT")}

\* C28: when more than one line of the model's text starts with SELECT,
\* OllamaNLtoSQL._clean_sql gives the statement of the first such line and
\* nothing of the later ones.
C28_FirstQueryOnly ==
    \A t \in Callers :
        (/\ LLMDone(t)
         /\ self[t] = "ollama"
         /\ response[t].kind = "text"
         /\ Cardinality(SelectLines(response[t].text)) > 1) =>
            LET lines  == Split(response[t].text, "\n")
                starts == SelectLines(response[t].text)
                first  == Strip(lines[Min(starts)])
            IN  /\ StartsWith(SqlOf(t), RStrip(first, {";"}))
                /\ \A k \in starts :
                       ~Contains(first, RStrip(Strip(lines[k]), {";"})) =>
                           ~Contains(SqlOf(t), RStrip(Strip(lines[k]), {";"}))

\* C29: the dashboard passes SQL generated from a question to execute_sql
\* only if it begins with SELECT.
C29_OnlySelectExecuted ==
    \A k \in 1..Len(executed) : StartsWith(Upper(Strip(executed[k])), "SELECT")

====
